---- MODULE Spec2Model ----
(***************************************************************************)
(* The IDS inference engine of src/src/ids.py and src/src/utils.py:        *)
(* load_flows, windowed_host_features, assemble_features,                  *)
(* apply_heuristics, run_batch and run_streaming; and the window and the   *)
(* bundle of src/IDS-tool/src/train_model.py.                              *)
(*                                                                         *)
(* Numbers.  Timestamps are whole seconds, byte counts and ports whole     *)
(* numbers.  beacon_cv_window is kept as the exact square of the           *)
(* coefficient of variation, a reduced fraction [num, den]; thresholds on  *)
(* it are compared exactly.  A score is kept in thousandths (rounded       *)
(* down): 500 is 0.5, 1000 is 1.0.                                         *)
(***************************************************************************)
EXTENDS Integers, Sequences, FiniteSets, TLC

VARIABLES
    input,         \* the records of the input file, in file order
    model_meta,    \* the model bundle: feature_columns, window_seconds, model
    pc,            \* where the run is
    df,            \* run_batch: load_flows(input)
    idx,           \* windowed_host_features: rows processed so far
    out_windows,   \* windowed_host_features: host -> deque of outbound events
    in_windows,    \* windowed_host_features: host -> deque of inbound events
    winf,          \* windowed_host_features: the feature rows computed so far
    X,             \* run_batch: the feature matrix after alignment to model_cols
    Xfull,         \* run_batch: the feature matrix assemble_features returned
    proba,         \* run_batch: what predict_proba returned, or NoProba
    bi,            \* run_batch: rows of the detection loop done
    dets_batch,    \* run_batch: dets
    batch_raised,  \* run_batch raised instead of returning
    buffer_rows,   \* run_streaming: the retained history
    si,            \* run_streaming: chunks read so far
    dets_stream,   \* run_streaming: dets
    X_cols,        \* run_batch: the columns of X, in their order
    now,           \* run_streaming: the clock read by pd.Timestamp.now()
    row_features,  \* apply_heuristics called on its own: its argument
    detections,    \* apply_heuristics called on its own: what it returned
    args,          \* train_model.py: --window and --feature-only
    win_seconds    \* train_model.py: the window the features were assembled with

vars == <<input, model_meta, pc, df, idx, out_windows, in_windows, winf, X,
          Xfull, proba, bi, dets_batch, batch_raised, buffer_rows, si,
          dets_stream, X_cols, now, row_features, detections, args,
          win_seconds>>

\* the variables of training
train_vars == <<args, win_seconds>>

\* the variables of a call of apply_heuristics on its own
heur_vars == <<row_features, detections>>

---------------------------------------------------------------------------
(* Bounds of the model *)

\* longest input of the exhaustive specification
MaxLen == 3
\* number of flows host A sends in the port-scan scenario
ScanFlows == 25
\* number of flows host A sends in the beaconing scenario
BeaconFlows == 6

---------------------------------------------------------------------------
(* Program constants, src/src/ids.py 15..20 *)

PORT_SCAN_UNIQUE_PORTS == 20
BRUTE_FORCE_CONN_THRESHOLD == 50
EXFILTRATION_BYTES_THRESHOLD == 1000000
EXFILTRATION_RATIO == 10
\* BEACON_CV_THRESHOLD = 0.2, kept as its inverse: cv <= 0.2 iff 5 * cv <= 1
BEACON_CV_THRESHOLD_INV == 5
BEACON_MIN_COUNT == 5
\* the ML fusion threshold 0.5, in thousandths
ML_THRESHOLD == 500
\* window_seconds of a bundle that names none
DEFAULT_WINDOW == 60

\* the host identifiers of the inputs; "" is the src_ip or dst_ip of an input
\* without that column
Hosts == {"A", "B", "C", ""}

\* Python's None, for a bundle's feature_columns and label_encoder and for
\* proba after predict_proba raised.  A value that may be None is a record
\* [none |-> TRUE] or [none |-> FALSE, v |-> the value].
None == [none |-> TRUE]
Some(v) == [none |-> FALSE, v |-> v]

---------------------------------------------------------------------------
(* Arithmetic helpers *)

Min(a, b) == IF a <= b THEN a ELSE b
Max(a, b) == IF a >= b THEN a ELSE b

RECURSIVE Gcd(_, _)
Gcd(a, b) == IF b = 0 THEN a ELSE Gcd(b, a % b)

\* the fraction n/d (d > 0, n >= 0) in lowest terms
Frac(n, d) == IF n = 0 THEN [num |-> 0, den |-> 1]
              ELSE LET g == Gcd(n, d) IN [num |-> n \div g, den |-> d \div g]

\* float 1.0 and 0.0 as squared coefficient of variation
CvOne == [num |-> 1, den |-> 1]
CvZero == [num |-> 0, den |-> 1]

\* floor(1000 * sqrt(q)) for a fraction q in [0, 1]
SqrtMilli(q) ==
    CHOOSE r \in 0..1000 :
        /\ r * r * q.den <= 1000 * 1000 * q.num
        /\ (r = 1000 \/ (r + 1) * (r + 1) * q.den > 1000 * 1000 * q.num)

RECURSIVE SumSeq(_)
SumSeq(s) == IF s = <<>> THEN 0 ELSE Head(s) + SumSeq(Tail(s))

\* np.diff
Diffs(times) == [k \in 1..(Len(times) - 1) |-> times[k + 1] - times[k]]

SelectIdx(s, Test(_)) == {k \in 1..Len(s) : Test(s[k])}

---------------------------------------------------------------------------
(* load_flows, src/src/utils.py 10..50 *)

\* df.sort_values('ts').reset_index(drop=True): rows in non-decreasing ts,
\* rows of equal ts in their previous order.  The rows of the smallest
\* remaining ts come first, in the order they had, then the rest.
RECURSIVE SortFrom(_, _)
SortFrom(rows, tss) ==
    IF tss = {} THEN <<>>
    ELSE LET t == CHOOSE u \in tss : \A v \in tss : u <= v
         IN SelectSeq(rows, LAMBDA r : r.ts = t) \o SortFrom(rows, tss \ {t})

\* A ts cell is a timestamp in whole seconds or one of two values that are
\* none: NaT (an empty cell, and what pd.to_datetime(errors='coerce') makes
\* of a cell it cannot parse) and a text that pd.to_datetime cannot parse.
TsNaT == 0 - 1000000
TsText == 0 - 2000000

IsTs(cell) == cell \notin {TsNaT, TsText}

\* sort_values puts the rows without a timestamp last, in their previous order
SortByTs(rows) ==
    SortFrom(rows, {rows[k].ts : k \in {j \in 1..Len(rows) : IsTs(rows[j].ts)}})
        \o SelectSeq(rows, LAMBDA r : ~IsTs(r.ts))

\* A row of the input is a record of its cells by column name; every row of
\* one input has the same columns.  A row_id cell is a positive integer or
\* one of three values that are no integer: the empty string '' (what a
\* missing row_id column is filled with, line 42), a text that int() rejects,
\* and NaN (an empty CSV cell).
RowIdEmpty == 0
RowIdNaN == 0 - 2
RowIdText == 0 - 3

\* int(cell) returns
IsInt(cell) == cell \notin {RowIdEmpty, RowIdNaN, RowIdText}

\* line 40: the columns load_flows adds when the input lacks them
CanonicalCols == <<"row_id", "src_ip", "dst_ip", "src_port", "dst_port",
                   "proto", "bytes", "packets", "duration", "tcp_flags">>

\* line 42 and line 44
NumericCols == {"src_port", "dst_port", "bytes", "packets", "duration"}

Columns(rows) == IF rows = <<>> THEN {} ELSE DOMAIN rows[1]

\* DefaultCell with 1 for a numeric column
DefaultCell_One(col) ==
    IF col \in NumericCols THEN 1
    ELSE IF col = "row_id" THEN RowIdEmpty ELSE ""

\* line 42: 0 for a numeric column, '' for the others
DefaultCell(col) ==
    IF col \in NumericCols THEN 0
    ELSE IF col = "row_id" THEN RowIdEmpty ELSE ""

\* lines 18..24 (ids.py 143..148): without a ts column, one timestamp per
\* second from 2000-01-01 on, in file order; the model counts the seconds
\* from that instant
SynthTs(rows) ==
    IF "ts" \in Columns(rows) THEN rows
    ELSE [k \in 1..Len(rows) |->
             [c \in DOMAIN rows[k] \cup {"ts"} |->
                 IF c = "ts" THEN k - 1 ELSE rows[k][c]]]

\* lines 40..42 (ids.py 149..151)
FillColumns(rows) ==
    LET canon == {CanonicalCols[j] : j \in 1..Len(CanonicalCols)}
    IN [k \in 1..Len(rows) |->
           [c \in DOMAIN rows[k] \cup canon |->
               IF c \in DOMAIN rows[k] THEN rows[k][c] ELSE DefaultCell(c)]]

\* lines 47..48 (ids.py 154..155), reached after the column was filled: the
\* column is never absent here, so only a null cell renumbers the rows
AssignRowId(rows) ==
    IF \E k \in 1..Len(rows) : rows[k].row_id = RowIdNaN
    THEN [k \in 1..Len(rows) |-> [rows[k] EXCEPT !.row_id = k]]
    ELSE rows

\* lines 26..32 (ids.py 144): pd.to_datetime(df['ts'], errors='coerce')
CoerceTs(rows) ==
    IF \A k \in 1..Len(rows) : IsTs(rows[k].ts) THEN rows
    ELSE [k \in 1..Len(rows) |->
             [rows[k] EXCEPT !.ts = IF IsTs(@) THEN @ ELSE TsNaT]]

\* lines 34..38: one timestamp per second from 2000-01-01 on when no cell
\* holds a timestamp; otherwise ffill().bfill(): each NaT cell takes the
\* timestamp of the last row before it that has one, and the NaT cells before
\* the first timestamp take that first one
FillTs(rows) ==
    LET n == Len(rows)
        valid == {k \in 1..n : IsTs(rows[k].ts)}
        before(k) == {j \in valid : j <= k}
    IN IF valid = 1..n THEN rows
       ELSE IF valid = {}
            THEN [k \in 1..n |-> [rows[k] EXCEPT !.ts = k - 1]]
            ELSE [k \in 1..n |->
                     [rows[k] EXCEPT !.ts =
                         IF before(k) # {}
                         THEN rows[CHOOSE j \in before(k) :
                                       \A i \in before(k) : i <= j].ts
                         ELSE rows[CHOOSE j \in valid :
                                       \A i \in valid : j <= i].ts]]

load_flows(rows) ==
    SortByTs(AssignRowId(FillColumns(FillTs(CoerceTs(SynthTs(rows))))))

\* load_flows_from_df, src/src/ids.py 141..156: the timestamps are coerced
\* (lines 143..148) and no NaT is filled
load_flows_from_df(rows) ==
    SortByTs(AssignRowId(FillColumns(CoerceTs(SynthTs(rows)))))

---------------------------------------------------------------------------
(* windowed_host_features, src/src/utils.py 88..156 *)

\* evict_deque with the eviction left out
evict_deque_Never(dq, threshold_ts) == dq

\* evict_deque popping an event that is exactly threshold_ts old as well
RECURSIVE evict_deque_AtBoundary(_, _)
evict_deque_AtBoundary(dq, threshold_ts) ==
    IF dq # <<>> /\ IsTs(Head(dq).ts) /\ IsTs(threshold_ts)
                 /\ Head(dq).ts <= threshold_ts
    THEN evict_deque_AtBoundary(Tail(dq), threshold_ts)
    ELSE dq

\* evict_deque: pop from the left while the head is older than threshold_ts;
\* a comparison with NaT is False
RECURSIVE evict_deque(_, _)
evict_deque(dq, threshold_ts) ==
    IF dq # <<>> /\ IsTs(Head(dq).ts) /\ IsTs(threshold_ts)
                 /\ Head(dq).ts < threshold_ts
    THEN evict_deque(Tail(dq), threshold_ts)
    ELSE dq

\* beacon_cv with the length test off by one
beacon_cv_TwoTimes(times) ==
    IF Len(times) >= 2
    THEN LET d == Diffs(times)
             m == Len(d)
             S == SumSeq(d)
             Q == SumSeq([k \in 1..m |-> d[k] * d[k]])
         IN IF S > 0 THEN Frac(m * Q - S * S, S * S) ELSE CvZero
    ELSE CvOne

\* beacon_cv giving 1.0 when the mean of the deltas is 0
beacon_cv_ZeroMeanOne(times) ==
    IF Len(times) >= 3
    THEN LET d == Diffs(times)
             m == Len(d)
             S == SumSeq(d)
             Q == SumSeq([k \in 1..m |-> d[k] * d[k]])
         IN IF S > 0 THEN Frac(m * Q - S * S, S * S) ELSE CvOne
    ELSE CvOne

\* lines 135..140
beacon_cv(times) ==
    IF Len(times) >= 3
    THEN LET d == Diffs(times)
             m == Len(d)
             S == SumSeq(d)
             Q == SumSeq([k \in 1..m |-> d[k] * d[k]])
         IN IF S > 0 THEN Frac(m * Q - S * S, S * S) ELSE CvZero
    ELSE CvOne

\* lines 105..106: ts_pd - pd.Timedelta(seconds=window_seconds); NaT stays NaT
WindowStart(ts, window_seconds) ==
    IF IsTs(ts) THEN ts - window_seconds ELSE TsNaT

\* lines 112..115: the four evictions of one iteration
EvictOut(ow, row, window_seconds) ==
    LET window_start == WindowStart(row.ts, window_seconds)
        o1 == [ow EXCEPT ![row.src_ip] = evict_deque(@, window_start)]
    IN [o1 EXCEPT ![row.dst_ip] = evict_deque(@, window_start)]

\* EvictIn without the eviction of the source host's inbound deque
EvictIn_DstOnly(iw, row, window_seconds) ==
    LET window_start == WindowStart(row.ts, window_seconds)
    IN [iw EXCEPT ![row.dst_ip] = evict_deque(@, window_start)]

EvictIn(iw, row, window_seconds) ==
    LET window_start == WindowStart(row.ts, window_seconds)
        i1 == [iw EXCEPT ![row.src_ip] = evict_deque(@, window_start)]
    IN [i1 EXCEPT ![row.dst_ip] = evict_deque(@, window_start)]

\* RowFeatures without ports_set.add(dst_port)
RowFeatures_NoCurrentPort(out_dq, in_dq, row) ==
    [unique_dst_ports_window |->
         Cardinality({out_dq[k].port : k \in 1..Len(out_dq)}),
     connections_same_dst_window |->
         Cardinality(SelectIdx(out_dq, LAMBDA e : e.peer = row.dst_ip)) + 1,
     outbound_bytes_window |->
         SumSeq([k \in 1..Len(out_dq) |-> out_dq[k].bytes]) + row.bytes,
     inbound_bytes_window |->
         SumSeq([k \in 1..Len(in_dq) |-> in_dq[k].bytes]),
     beacon_cv_window |->
         beacon_cv([k \in 1..Len(out_dq) |-> out_dq[k].ts] \o <<row.ts>>),
     recent_conn_count |-> Len(out_dq) + 1]

\* lines 117..140: the six features of one row, from the evicted deques
RowFeatures(out_dq, in_dq, row) ==
    [unique_dst_ports_window |->
         Cardinality({out_dq[k].port : k \in 1..Len(out_dq)} \cup {row.dst_port}),
     connections_same_dst_window |->
         Cardinality(SelectIdx(out_dq, LAMBDA e : e.peer = row.dst_ip)) + 1,
     outbound_bytes_window |->
         SumSeq([k \in 1..Len(out_dq) |-> out_dq[k].bytes]) + row.bytes,
     inbound_bytes_window |->
         SumSeq([k \in 1..Len(in_dq) |-> in_dq[k].bytes]),
     beacon_cv_window |->
         beacon_cv([k \in 1..Len(out_dq) |-> out_dq[k].ts] \o <<row.ts>>),
     recent_conn_count |-> Len(out_dq) + 1]

\* one iteration of the loop of lines 104..143
WinStep(ow, iw, row, window_seconds) ==
    LET o == EvictOut(ow, row, window_seconds)
        i == EvictIn(iw, row, window_seconds)
        f == RowFeatures(o[row.src_ip], i[row.src_ip], row)
    IN [out |-> [o EXCEPT ![row.src_ip] =
                     Append(@, [ts |-> row.ts, port |-> row.dst_port,
                                peer |-> row.dst_ip, bytes |-> row.bytes])],
        in |-> [i EXCEPT ![row.dst_ip] =
                     Append(@, [ts |-> row.ts, peer |-> row.src_ip,
                                bytes |-> row.bytes])],
        feat |-> [row_id |-> row.row_id, f |-> f]]

EmptyWindows == [h \in Hosts |-> <<>>]

\* the whole function: the feature rows of rows, one per row
RECURSIVE WinFold(_, _, _, _, _, _)
WinFold(rows, window_seconds, k, ow, iw, acc) ==
    IF k > Len(rows) THEN acc
    ELSE LET s == WinStep(ow, iw, rows[k], window_seconds)
         IN WinFold(rows, window_seconds, k + 1, s.out, s.in, Append(acc, s.feat))

windowed_host_features(rows, window_seconds) ==
    WinFold(rows, window_seconds, 1, EmptyWindows, EmptyWindows, <<>>)

---------------------------------------------------------------------------
(* assemble_features, src/src/utils.py 159..185 *)

\* basic_features, lines 53..75.  The numeric feature columns, in the order
\* of line 68
BasicCols == <<"src_port", "dst_port", "bytes", "packets", "duration",
               "bytes_per_sec", "pkts_per_sec", "byte_pkts_ratio", "hour">>

\* the values a proto and a tcp_flags cell take in the inputs, in the order
\* get_dummies sorts them
ProtoValues == <<"", "tcp", "udp">>
FlagsValues == <<"", "S">>

\* lines 64..65: pd.get_dummies(df[col], prefix=prefix): one indicator
\* column per value observed in this frame
Dummies(rows, col, prefix, values) ==
    LET seen == SelectSeq(values,
                    LAMBDA v : \E k \in 1..Len(rows) : rows[k][col] = v)
    IN [j \in 1..Len(seen) |-> [name |-> prefix \o "_" \o seen[j],
                                 value |-> seen[j]]]

\* line 74: categorical_cols
categorical_cols(rows) ==
    LET p == Dummies(rows, "proto", "proto", ProtoValues)
        f == Dummies(rows, "tcp_flags", "flags", FlagsValues)
    IN [j \in 1..Len(p) |-> p[j].name] \o [j \in 1..Len(f) |-> f[j].name]

\* np.where(d > 0, a / d, 0.0), in whole numbers
Rate(a, d) == IF d > 0 THEN a \div d ELSE 0

\* lines 56..73: one row of `features`; the hour of NaT is NaN, which line 73
\* replaces by 0
BasicRow(rows, k) ==
    LET r == rows[k]
        p == Dummies(rows, "proto", "proto", ProtoValues)
        f == Dummies(rows, "tcp_flags", "flags", FlagsValues)
        num == [row_id |-> r.row_id, src_ip |-> r.src_ip, dst_ip |-> r.dst_ip,
                src_port |-> r.src_port, dst_port |-> r.dst_port,
                bytes |-> r.bytes, packets |-> r.packets,
                duration |-> r.duration,
                bytes_per_sec |-> Rate(r.bytes, r.duration),
                pkts_per_sec |-> Rate(r.packets, r.duration),
                byte_pkts_ratio |-> Rate(r.bytes, r.packets),
                hour |-> IF IsTs(r.ts) THEN (r.ts \div 3600) % 24 ELSE 0]
        pn == {p[j].name : j \in 1..Len(p)}
        fn == {f[j].name : j \in 1..Len(f)}
    IN [c \in DOMAIN num \cup pn \cup fn |->
           IF c \in DOMAIN num THEN num[c]
           ELSE IF c \in pn
                THEN IF \E j \in 1..Len(p) :
                            p[j].name = c /\ p[j].value = r.proto
                     THEN 1 ELSE 0
                ELSE IF \E j \in 1..Len(f) :
                            f[j].name = c /\ f[j].value = r.tcp_flags
                     THEN 1 ELSE 0]

basic_features(rows) == [k \in 1..Len(rows) |-> BasicRow(rows, k)]

\* the columns of win_df after row_id, in their order (lines 145..153)
WindowCols == <<"unique_dst_ports_window", "connections_same_dst_window",
                "outbound_bytes_window", "inbound_bytes_window",
                "beacon_cv_window", "recent_conn_count">>

\* line 183: the columns of merged but row_id, src_ip and dst_ip
feature_cols(rows) == BasicCols \o categorical_cols(rows) \o WindowCols

\* feature_cols of an input without proto and tcp_flags columns
FeatureCols == BasicCols \o <<"proto_", "flags_">> \o WindowCols

\* src_present with the test "at least one distinct value"
src_present_AnyValue(rows) ==
    Cardinality({rows[k].src_ip : k \in 1..Len(rows)}) > 0

\* lines 163..166
src_present(rows) == Cardinality({rows[k].src_ip : k \in 1..Len(rows)}) > 1

\* lines 170..178: the zeroed placeholder of one row
ZeroFeatures ==
    [unique_dst_ports_window |-> 0, connections_same_dst_window |-> 0,
     outbound_bytes_window |-> 0, inbound_bytes_window |-> 0,
     beacon_cv_window |-> CvZero, recent_conn_count |-> 0]

ZeroWin(rows) == [k \in 1..Len(rows) |-> [row_id |-> rows[k].row_id, f |-> ZeroFeatures]]

\* lines 182..184: one row of X: the feature columns of the left row and the
\* window columns of the right row
MergedRow(b, w) ==
    [c \in (DOMAIN b \ {"row_id", "src_ip", "dst_ip"}) \cup DOMAIN w.f |->
        IF c \in DOMAIN w.f THEN w.f[c] ELSE b[c]]

\* line 182: basic_df.merge(win_df, on='row_id', how='left'): for each left
\* row in order, one merged row per right row of the same row_id
RECURSIVE merge(_, _)
merge(basic_df, win_df) ==
    IF basic_df = <<>> THEN <<>>
    ELSE LET b == Head(basic_df)
             m == SelectSeq(win_df, LAMBDA w : w.row_id = b.row_id)
         IN [k \in 1..Len(m) |-> MergedRow(b, m[k])]
                \o merge(Tail(basic_df), win_df)

assemble_features(rows, window_seconds) ==
    merge(basic_features(rows),
          IF src_present(rows)
          THEN windowed_host_features(rows, window_seconds)
          ELSE ZeroWin(rows))

---------------------------------------------------------------------------
(* apply_heuristics, src/src/ids.py 30..46 *)

\* row_features.get(name, default)
Get(rf, name, default) == IF name \in DOMAIN rf THEN rf[name] ELSE default

\* cv <= BEACON_CV_THRESHOLD, on the squared value
CvLeThreshold(cv) ==
    cv.num * BEACON_CV_THRESHOLD_INV * BEACON_CV_THRESHOLD_INV <= cv.den

\* RatioScore without the min
RatioScore_NoClamp(a, b) == (a * 1000) \div b

\* min(1.0, a / b) in thousandths
RatioScore(a, b) == Min(1000, (a * 1000) \div b)

\* PortScanRule with a strict threshold
PortScanRule_Strict(rf) ==
    LET up == Get(rf, "unique_dst_ports_window", 0)
    IN IF up > PORT_SCAN_UNIQUE_PORTS
       THEN <<[reason |-> "Port_Scan_Rule",
               score |-> RatioScore(up, PORT_SCAN_UNIQUE_PORTS * 2),
               class_guess |-> "port_scan"]>>
       ELSE <<>>

PortScanRule(rf) ==
    LET up == Get(rf, "unique_dst_ports_window", 0)
    IN IF up >= PORT_SCAN_UNIQUE_PORTS
       THEN <<[reason |-> "Port_Scan_Rule",
               score |-> RatioScore(up, PORT_SCAN_UNIQUE_PORTS * 2),
               class_guess |-> "port_scan"]>>
       ELSE <<>>

\* BruteForceRule with a strict threshold
BruteForceRule_Strict(rf) ==
    LET bf == Get(rf, "connections_same_dst_window", 0)
    IN IF bf > BRUTE_FORCE_CONN_THRESHOLD
       THEN <<[reason |-> "Brute_Force_Rule",
               score |-> RatioScore(bf, BRUTE_FORCE_CONN_THRESHOLD * 2),
               class_guess |-> "brute_force"]>>
       ELSE <<>>

BruteForceRule(rf) ==
    LET bf == Get(rf, "connections_same_dst_window", 0)
    IN IF bf >= BRUTE_FORCE_CONN_THRESHOLD
       THEN <<[reason |-> "Brute_Force_Rule",
               score |-> RatioScore(bf, BRUTE_FORCE_CONN_THRESHOLD * 2),
               class_guess |-> "brute_force"]>>
       ELSE <<>>

ExfiltrationRule(rf) ==
    LET outb == Get(rf, "outbound_bytes_window", 0)
        inb == Get(rf, "inbound_bytes_window", 0)
    IN IF outb >= EXFILTRATION_BYTES_THRESHOLD
          \/ outb >= EXFILTRATION_RATIO * (inb + 1)
       THEN <<[reason |-> "Exfiltration_Rule", score |-> 1000,
               class_guess |-> "exfiltration"]>>
       ELSE <<>>

\* min(1.0, (BEACON_MIN_COUNT / max(1.0, cnt)) * (1.0 - cv)) in thousandths
BeaconScore(cv, cnt) ==
    Min(1000, (BEACON_MIN_COUNT * (1000 - SqrtMilli(cv))) \div Max(1, cnt))

\* BeaconingRule with a strict count threshold
BeaconingRule_Strict(rf) ==
    LET cv == Get(rf, "beacon_cv_window", CvOne)
        cnt == Get(rf, "recent_conn_count", 0)
    IN IF CvLeThreshold(cv) /\ cnt > BEACON_MIN_COUNT
       THEN <<[reason |-> "Beaconing_Rule", score |-> BeaconScore(cv, cnt),
               class_guess |-> "beaconing"]>>
       ELSE <<>>

BeaconingRule(rf) ==
    LET cv == Get(rf, "beacon_cv_window", CvOne)
        cnt == Get(rf, "recent_conn_count", 0)
    IN IF CvLeThreshold(cv) /\ cnt >= BEACON_MIN_COUNT
       THEN <<[reason |-> "Beaconing_Rule", score |-> BeaconScore(cv, cnt),
               class_guess |-> "beaconing"]>>
       ELSE <<>>

apply_heuristics(rf) ==
    PortScanRule(rf) \o BruteForceRule(rf) \o ExfiltrationRule(rf)
        \o BeaconingRule(rf)

---------------------------------------------------------------------------
(* The classifier and the alignment of the matrix to it *)

\* what a missing column is filled with (ids.py 55, 116): 0.0
ZeroOf(c) == IF c = "beacon_cv_window" THEN CvZero ELSE 0

\* ids.py 53..56 and 114..117: X[model_cols], missing columns zero
AlignRow(row, model_cols) ==
    [c \in {model_cols[k] : k \in 1..Len(model_cols)} |->
        IF c \in DOMAIN row THEN row[c] ELSE ZeroOf(c)]

Align(rows, model_cols) == [k \in 1..Len(rows) |-> AlignRow(rows[k], model_cols)]

\* AlignCols keeping the assembled order of the columns
AlignCols_AssembledOrder(cols, model_cols) ==
    LET missing == SelectSeq(model_cols,
                       LAMBDA c : \A j \in 1..Len(cols) : cols[j] # c)
    IN SelectSeq(cols \o missing,
           LAMBDA c : \E j \in 1..Len(model_cols) : model_cols[j] = c)

\* the columns of the aligned matrix, in their order: each missing column of
\* model_cols is appended to cols (lines 53..55), then X[model_cols] takes
\* the column of each label of model_cols in turn (line 56)
AlignCols(cols, model_cols) ==
    LET missing == SelectSeq(model_cols,
                       LAMBDA c : \A j \in 1..Len(cols) : cols[j] # c)
        all == cols \o missing
    IN [j \in 1..Len(model_cols) |->
           all[CHOOSE i \in 1..Len(all) : all[i] = model_cols[j]]]

\* The classifier is not code of the repository: a bundle names one of these
\* behaviours.  "raise": predict_proba raises.  "hi", "lo", "half": the same
\* probability vector for every row ("weak": three classes, none reaching
\* 0.5).  "by_bytes": the vector depends on the
\* row's bytes column.
ClfKinds == {"raise", "hi", "lo", "half", "by_bytes", "weak"}

ProbaRow(kind, row) ==
    CASE kind = "hi" -> <<100, 900>>
      [] kind = "lo" -> <<600, 400>>
      [] kind = "half" -> <<500, 500>>
      [] kind = "weak" -> <<300, 400, 300>>
      [] OTHER -> IF Get(row, "bytes", 0) >= 10 THEN <<200, 800>>
                  ELSE <<550, 450>>

\* clf.predict_proba(X) inside try/except (ids.py 60..63): one probability
\* vector per row, or None when it raises
predict_proba(kind, rows) ==
    IF kind = "raise" THEN None
    ELSE Some([k \in 1..Len(rows) |-> ProbaRow(kind, rows[k])])

\* np.argmax: the first index of the largest entry
ArgMax(probs) ==
    CHOOSE k \in 1..Len(probs) :
        /\ \A j \in 1..Len(probs) : probs[j] <= probs[k]
        /\ \A j \in 1..(k - 1) : probs[j] < probs[k]

\* ml_detection with the test top_prob > 0.5
ml_detection_Strict(probs, label_encoder) ==
    LET top_idx == ArgMax(probs)
        top_prob == probs[top_idx]
        class_guess == IF ~label_encoder.none THEN label_encoder.v[top_idx]
                       ELSE ToString(top_idx - 1)
    IN IF top_prob > ML_THRESHOLD
       THEN <<[reason |-> "ML_Detection", score |-> top_prob,
               class_guess |-> class_guess]>>
       ELSE <<>>

\* ids.py 73..78 and 121..126
ml_detection(probs, label_encoder) ==
    LET top_idx == ArgMax(probs)
        top_prob == probs[top_idx]
        class_guess == IF ~label_encoder.none THEN label_encoder.v[top_idx]
                       ELSE ToString(top_idx - 1)
    IN IF top_prob >= ML_THRESHOLD
       THEN <<[reason |-> "ML_Detection", score |-> top_prob,
               class_guess |-> class_guess]>>
       ELSE <<>>

\* ids.py 81..82 and 131..132
Tagged(row_id, ds) ==
    [k \in 1..Len(ds) |-> [row_id |-> row_id, reason |-> ds[k].reason,
                           score |-> ds[k].score,
                           class_guess |-> ds[k].class_guess]]

---------------------------------------------------------------------------
(* run_batch, src/src/ids.py 49..83 *)

\* int(model_meta.get('window_seconds', 60))
window_seconds == model_meta.window_seconds

\* line 50 and the head of assemble_features (line 51; utils.py 160..178)
BatchLoad ==
    /\ pc = "load"
    /\ df' = load_flows(input)
    /\ IF src_present(df')
       THEN pc' = "window" /\ winf' = <<>>
       ELSE pc' = "merge" /\ winf' = ZeroWin(df')
    /\ UNCHANGED <<input, model_meta, idx, out_windows, in_windows, X, Xfull,
                   proba, bi, dets_batch, batch_raised, buffer_rows, si,
                   dets_stream,
                   X_cols, now>>
    /\ UNCHANGED heur_vars
    /\ UNCHANGED train_vars

\* one iteration of the loop of windowed_host_features (utils.py 104..143)
WindowStep ==
    /\ pc = "window"
    /\ idx < Len(df)
    /\ LET s == WinStep(out_windows, in_windows, df[idx + 1], window_seconds)
       IN /\ out_windows' = s.out
          /\ in_windows' = s.in
          /\ winf' = Append(winf, s.feat)
    /\ idx' = idx + 1
    /\ UNCHANGED <<input, model_meta, pc, df, X, Xfull, proba, bi, dets_batch,
                   batch_raised, buffer_rows, si, dets_stream,
                   X_cols, now>>
    /\ UNCHANGED heur_vars
    /\ UNCHANGED train_vars

\* the tail of assemble_features (utils.py 182..185), then lines 52..63: the
\* alignment to model_cols and predict_proba.  Iterating over a feature_columns
\* of None raises at line 53 and run_batch ends there.
BatchAssemble ==
    /\ pc = "merge" \/ (pc = "window" /\ idx = Len(df))
    /\ Xfull' = merge(basic_features(df), winf)
    /\ IF model_meta.feature_columns.none
       THEN /\ batch_raised' = TRUE
            /\ pc' = "stream"
            /\ UNCHANGED <<X, X_cols, proba>>
       ELSE /\ X' = Align(Xfull', model_meta.feature_columns.v)
            /\ X_cols' = AlignCols(feature_cols(df),
                                   model_meta.feature_columns.v)
            /\ proba' = predict_proba(model_meta.model, X')
            /\ pc' = "rows"
            /\ UNCHANGED batch_raised
    /\ UNCHANGED <<input, model_meta, df, idx, out_windows, in_windows, winf,
                   bi, dets_batch, buffer_rows, si, dets_stream, now>>
    /\ UNCHANGED heur_vars
    /\ UNCHANGED train_vars

\* BatchRowDets with the ML detection put before the heuristic ones
BatchRowDets_MlFirst(row, rf, pr, i, meta) ==
    LET heur == apply_heuristics(rf)
        ml_det == IF pr.none THEN <<>>
                  ELSE ml_detection(pr.v[i], meta.label_encoder)
    IN Tagged(row.row_id, ml_det \o heur)

\* BatchRowDets with the heuristic detections lost when predict_proba raised
BatchRowDets_DropOnFailure(row, rf, pr, i, meta) ==
    IF pr.none THEN <<>>
    ELSE Tagged(row.row_id, apply_heuristics(rf)
                                \o ml_detection(pr.v[i], meta.label_encoder))

\* lines 67..82 for one row of df: rf its row of the aligned matrix, pr what
\* predict_proba returned
BatchRowDets(row, rf, pr, i, meta) ==
    LET heur == apply_heuristics(rf)
        ml_det == IF pr.none THEN <<>>
                  ELSE ml_detection(pr.v[i], meta.label_encoder)
    IN Tagged(row.row_id, heur \o ml_det)

\* one iteration of the loop of lines 66..82.  int(row['row_id']) of line 67
\* is in no try block: when it raises, run_batch ends there and returns
\* nothing.
BatchRow ==
    /\ pc = "rows"
    /\ bi < Len(df)
    /\ IF IsInt(df[bi + 1].row_id)
       THEN /\ dets_batch' = dets_batch
                   \o BatchRowDets(df[bi + 1], X[bi + 1], proba, bi + 1,
                                   model_meta)
            /\ bi' = bi + 1
            /\ UNCHANGED <<pc, batch_raised>>
       ELSE /\ batch_raised' = TRUE
            /\ pc' = "stream"
            /\ UNCHANGED <<dets_batch, bi>>
    /\ UNCHANGED <<input, model_meta, df, idx, out_windows, in_windows,
                   winf, X, Xfull, proba, buffer_rows, si, dets_stream,
                   X_cols, now>>
    /\ UNCHANGED heur_vars
    /\ UNCHANGED train_vars

\* line 83
BatchReturn ==
    /\ pc = "rows"
    /\ bi = Len(df)
    /\ pc' = "stream"
    /\ UNCHANGED <<input, model_meta, df, idx, out_windows, in_windows, winf,
                   X, Xfull, proba, bi, dets_batch, batch_raised, buffer_rows,
                   si, dets_stream,
                   X_cols, now>>
    /\ UNCHANGED heur_vars
    /\ UNCHANGED train_vars

---------------------------------------------------------------------------
(* run_streaming, src/src/ids.py 86..138 *)

\* lines 113..119: the matrix given to predict_proba, its columns and rows
StreamAligned(buf_norm, X_buf, meta) ==
    IF meta.feature_columns.none
    THEN [cols |-> feature_cols(buf_norm), rows |-> X_buf]
    ELSE [cols |-> AlignCols(feature_cols(buf_norm), meta.feature_columns.v),
          rows |-> Align(X_buf, meta.feature_columns.v)]

\* lines 111..128: the ML detections of the newest record
StreamMl(buf_norm, X_buf, meta) ==
    LET X_al == StreamAligned(buf_norm, X_buf, meta).rows
        probs == predict_proba(meta.model, X_al)
    IN IF probs.none THEN <<>>
       ELSE ml_detection(probs.v[Len(X_buf)], meta.label_encoder)

\* lines 129..130: int(latest_row.get('row_id', -1)) raises
StreamFails(buf) ==
    LET latest_row == buf[Len(buf)]
    IN "row_id" \in DOMAIN latest_row /\ ~IsInt(latest_row.row_id)

\* lines 129..130, when they return
StreamRowId(latest_row) ==
    IF "row_id" \in DOMAIN latest_row THEN latest_row.row_id ELSE 0 - 1

\* lines 102..132: the detections appended when `buf` is the history with the
\* newest record last; none when line 130 raises
StreamDets(buf, meta) ==
    LET buf_norm == load_flows_from_df(buf)
        X_buf == assemble_features(buf_norm, meta.window_seconds)
        rf == X_buf[Len(X_buf)]
        heur == apply_heuristics(rf)
        latest_row == buf[Len(buf)]
    IN IF StreamFails(buf) THEN <<>>
       ELSE Tagged(StreamRowId(latest_row),
                   heur \o StreamMl(buf_norm, X_buf, meta))

\* lines 133..134: pd.to_datetime of a retained ts cell raises: the cell of
\* the newest record at line 133, a cell of any record at line 134
TrimRaises(buf) == \E k \in 1..Len(buf) : buf[k].ts = TsText

\* lines 133..135; a comparison with NaT is False
Trim(buf, w) ==
    LET latest_ts == buf[Len(buf)].ts
    IN SelectSeq(buf, LAMBDA r : /\ IsTs(r.ts)
                                  /\ IsTs(latest_ts)
                                  /\ r.ts >= latest_ts - w)

\* buffer_rows at the end of an iteration: trimmed (lines 133..135), or, when
\* line 130, 133 or 134 raised, left as line 101 made it (lines 136..137)
StreamBuffer(buf, w) ==
    IF StreamFails(buf) \/ TrimRaises(buf) THEN buf ELSE Trim(buf, w)

\* lines 96..100: the arriving record, stamped with the clock when the input
\* has no ts column
Stamped(row, clock) ==
    IF "ts" \in DOMAIN row THEN row
    ELSE [c \in DOMAIN row \cup {"ts"} |-> IF c = "ts" THEN clock ELSE row[c]]

\* one iteration of the loop of lines 94..137; the clock does not run
\* backwards
StreamStep ==
    /\ pc = "stream"
    /\ si < Len(input)
    /\ \E tick \in {0, 1} :
          /\ ("ts" \in DOMAIN input[si + 1]) => tick = 0
          /\ now' = now + tick
    /\ LET buf == Append(buffer_rows, Stamped(input[si + 1], now'))
       IN /\ dets_stream' = dets_stream \o StreamDets(buf, model_meta)
          /\ buffer_rows' = StreamBuffer(buf, window_seconds)
    /\ si' = si + 1
    /\ UNCHANGED <<input, model_meta, pc, df, idx, out_windows, in_windows,
                   winf, X, Xfull, proba, bi, dets_batch, batch_raised,
                   X_cols>>
    /\ UNCHANGED heur_vars
    /\ UNCHANGED train_vars

\* line 138
StreamReturn ==
    /\ pc = "stream"
    /\ si = Len(input)
    /\ pc' = "done"
    /\ UNCHANGED <<input, model_meta, df, idx, out_windows, in_windows, winf,
                   X, Xfull, proba, bi, dets_batch, batch_raised, buffer_rows,
                   si, dets_stream,
                   X_cols, now>>
    /\ UNCHANGED heur_vars
    /\ UNCHANGED train_vars

\* The two functions as a whole, for a given input and bundle

RECURSIVE BatchFold(_, _, _, _, _)
BatchFold(d, Xal, pr, meta, i) ==
    IF i > Len(d) THEN <<>>
    ELSE BatchRowDets(d[i], Xal[i], pr, i, meta)
             \o BatchFold(d, Xal, pr, meta, i + 1)

\* what run_batch returns when it returns (feature_columns a list, every
\* row_id an integer)
RunBatch(rows, meta) ==
    LET d == load_flows(rows)
        Xal == Align(assemble_features(d, meta.window_seconds),
                     meta.feature_columns.v)
    IN BatchFold(d, Xal, predict_proba(meta.model, Xal), meta, 1)

RECURSIVE StreamFold(_, _, _, _)
StreamFold(rows, meta, k, buf) ==
    IF k > Len(rows) THEN <<>>
    ELSE LET b == Append(buf, rows[k])
         IN StreamDets(b, meta)
                \o StreamFold(rows, meta, k + 1,
                              StreamBuffer(b, meta.window_seconds))

\* what run_streaming returns for an input with a ts column
RunStreaming(rows, meta) == StreamFold(rows, meta, 1, <<>>)

Next ==
    \/ BatchLoad
    \/ WindowStep
    \/ BatchAssemble
    \/ BatchRow
    \/ BatchReturn
    \/ StreamStep
    \/ StreamReturn

---------------------------------------------------------------------------
(* Inputs and bundles *)

\* the classes of the bundle's label encoder
Classes == <<"benign", "attack">>

Bundle(cols, w, kind, le) ==
    [feature_columns |-> cols, window_seconds |-> w, model |-> kind,
     label_encoder |-> le]

\* a bundle as training writes it, and ones that differ from it: a classifier
\* that raises, a feature-column list without the window columns and with a
\* column the assembler never produces, and a bare classifier wrapped by
\* load_model
Bundles ==
    {Bundle(Some(FeatureCols), DEFAULT_WINDOW, "hi", Some(Classes)),
     Bundle(Some(FeatureCols), DEFAULT_WINDOW, "raise", Some(Classes)),
     Bundle(Some(FeatureCols), DEFAULT_WINDOW, "by_bytes", Some(Classes)),
     Bundle(Some(BasicCols \o <<"proto_tcp">>), DEFAULT_WINDOW, "half",
            Some(Classes)),
     Bundle(None, DEFAULT_WINDOW, "lo", None)}

\* the state in which both runs start on `rows` with bundle `meta`
Start(rows, meta) ==
    /\ input = rows
    /\ model_meta = meta
    /\ pc = "load"
    /\ df = <<>>
    /\ idx = 0
    /\ out_windows = EmptyWindows
    /\ in_windows = EmptyWindows
    /\ winf = <<>>
    /\ X = <<>>
    /\ Xfull = <<>>
    /\ proba = None
    /\ bi = 0
    /\ dets_batch = <<>>
    /\ batch_raised = FALSE
    /\ buffer_rows = <<>>
    /\ si = 0
    /\ X_cols = <<>>
    /\ now = 0
    /\ dets_stream = <<>>
    /\ row_features = ZeroFeatures
    /\ detections = <<>>
    /\ args = None
    /\ win_seconds = None

Flow(id, ts, src, dst, port, b) ==
    [row_id |-> id, ts |-> ts, src_ip |-> src, dst_ip |-> dst,
     dst_port |-> port, bytes |-> b]

Sorted(rows) == \A k \in 1..(Len(rows) - 1) : rows[k].ts <= rows[k + 1].ts

\* Exhaustive small inputs: the input contract's record sets (row_id unique,
\* sorted by ts) of at most MaxLen records
TsValues == {0, 10, 70}
\* source, destination, destination port, bytes
FlowKinds == {<<"A", "B", 80, 5>>, <<"A", "B", 443, 10>>,
              <<"A", "C", 443, 10>>, <<"B", "A", 80, 10>>}

SmallInputs ==
    UNION {{[k \in 1..n |-> Flow(k, c[k][1], c[k][2][1], c[k][2][2],
                                 c[k][2][3], c[k][2][4])] :
               c \in {c \in [1..n -> TsValues \X FlowKinds] :
                         \A k \in 1..(n - 1) : c[k][1] <= c[k + 1][1]}} :
           n \in 0..MaxLen}

Init == \E rows \in SmallInputs, meta \in Bundles : Start(rows, meta)

Spec == Init /\ [][Next]_vars

\* Scenario inputs: the flows of host A, and at most one flow of host B put
\* before A's flow number pos (after the last one when pos is past it) with
\* that flow's timestamp, so that the input stays sorted by ts
NoExtra == [present |-> FALSE]
Extras(positions) ==
    {NoExtra} \cup {[present |-> TRUE, pos |-> p, dst |-> h] :
                       p \in positions, h \in {"A", "C"}}

WithExtra(aflows, e) ==
    IF ~e.present THEN aflows
    ELSE LET n == Len(aflows)
             ts == aflows[Min(e.pos, n)].ts
         IN SubSeq(aflows, 1, e.pos - 1)
                \o <<Flow(n + 1, ts, "B", e.dst, 53, 10)>>
                \o SubSeq(aflows, e.pos, n)

\* Port scan: host A sends n flows to host B.  rate "burst5": 5 flows per
\* second; "same": all in one second; "every3": one flow per 3 seconds.
\* cycle 0: every flow a new destination port; cycle c > 0: the ports repeat
\* after c flows.
ScanTs(k, rate) ==
    CASE rate = "burst5" -> (k - 1) \div 5
      [] rate = "same" -> 0
      [] OTHER -> 3 * (k - 1)

ScanPort(k, cycle) == 1000 + (IF cycle = 0 THEN k ELSE ((k - 1) % cycle) + 1)

ScanFlowsOf(n, rate, cycle) ==
    [k \in 1..n |-> Flow(k, ScanTs(k, rate), "A", "B", ScanPort(k, cycle), 1)]

\* enough flows for unique/40 and conns/100 to pass 1.0
ClampFlows == 2 * BRUTE_FORCE_CONN_THRESHOLD + 1

ScanInputs ==
    {WithExtra(ScanFlowsOf(ScanFlows, rate, cycle), e) :
        rate \in {"burst5", "every3"},
        cycle \in {0, PORT_SCAN_UNIQUE_PORTS - 1, PORT_SCAN_UNIQUE_PORTS},
        e \in Extras({1, 10, ScanFlows + 1})}
    \cup {WithExtra(ScanFlowsOf(ClampFlows, rate, 0),
                    [present |-> TRUE, pos |-> 1, dst |-> "C"]) :
             rate \in {"burst5", "same"}}

ScanBundles ==
    {Bundle(Some(FeatureCols), DEFAULT_WINDOW, "hi", Some(Classes)),
     Bundle(Some(BasicCols \o <<"proto_tcp">>), DEFAULT_WINDOW, "half",
            Some(Classes))}

InitScan == \E rows \in ScanInputs, meta \in ScanBundles : Start(rows, meta)

SpecScan == InitScan /\ [][Next]_vars

\* Beaconing: host A sends n flows to host B, port 443, one per interval
\* seconds; flow number late (if any) is delay seconds late
BeaconFlowsOf(n, interval, late, delay) ==
    [k \in 1..n |-> Flow(k, interval * (k - 1) + (IF k = late THEN delay ELSE 0),
                         "A", "B", 443, 1)]

BeaconInputs ==
    {WithExtra(BeaconFlowsOf(BeaconFlows, j[1], j[2], j[3]), e) :
        j \in {<<10, 0, 0>>, <<10, 5, 1>>, <<10, 3, 8>>, <<15, 0, 0>>,
               <<0, 0, 0>>},
        e \in Extras({1, 3, BeaconFlows + 1})}

InitBeacon == \E rows \in BeaconInputs, meta \in ScanBundles : Start(rows, meta)

SpecBeacon == InitBeacon /\ [][Next]_vars

\* Inputs as a file may hold them: some canonical columns absent, row_id
\* cells repeated, not numeric or empty, more than one proto value.  Row k of
\* an input of n rows is cut from a full row to the columns of the header.
RawLen == 3

RawTs(k, spread) ==
    IF spread = "near" \/ k <= 2 THEN 10 * (k - 1) ELSE 70 + 10 * (k - 3)

RawKind(k, kinds) ==
    CASE kinds = "one_src" -> <<"A", "B", 443, 10>>
      [] kinds = "a_first" -> IF k % 2 = 1 THEN <<"A", "B", 443, 10>>
                              ELSE <<"B", "A", 80, 10>>
      [] OTHER -> IF k % 2 = 1 THEN <<"B", "A", 80, 10>>
                  ELSE <<"A", "C", 443, 10>>

RawRowId(k, ids) ==
    CASE ids = "ok" -> k
      [] ids = "dup" -> 1
      [] ids = "text2" -> IF k = 2 THEN RowIdText ELSE k
      [] ids = "text3" -> IF k = 3 THEN RowIdText ELSE k
      [] OTHER -> IF k = 2 THEN RowIdNaN ELSE k

RawProto(k, protos) ==
    IF protos = "mixed" /\ k % 2 = 0 THEN "udp" ELSE "tcp"

FullRow(k, spread, kinds, ids, protos) ==
    LET f == RawKind(k, kinds)
    IN [row_id |-> RawRowId(k, ids), ts |-> RawTs(k, spread),
        src_ip |-> f[1], dst_ip |-> f[2], dst_port |-> f[3], bytes |-> f[4],
        proto |-> RawProto(k, protos)]

AllCols == {"row_id", "ts", "src_ip", "dst_ip", "dst_port", "bytes", "proto"}

Headers ==
    {AllCols, AllCols \ {"row_id"}, AllCols \ {"ts"},
     {"row_id", "src_ip", "dst_ip"},
     {"row_id", "ts", "src_ip", "dst_port", "bytes", "proto"},
     AllCols \ {"src_ip", "dst_ip"}}

RawInputs ==
    {[k \in 1..n |->
         [c \in h |-> FullRow(k, spread, kinds, ids, protos)[c]]] :
        n \in 1..RawLen, h \in Headers, spread \in {"near", "far"},
        kinds \in {"one_src", "a_first", "b_first"},
        ids \in {"ok", "dup", "text2", "text3", "nan2"},
        protos \in {"tcp", "mixed"}}

Classes3 == <<"benign", "port_scan", "beaconing">>

\* bundles whose feature-column list is the one of training on tcp-only
\* flows, a list in another order with a column never assembled and without
\* the window columns, and a three-class classifier
RawBundles ==
    {Bundle(Some(BasicCols \o <<"proto_tcp", "flags_">> \o WindowCols),
            DEFAULT_WINDOW, "hi", Some(Classes)),
     Bundle(Some(<<"bytes", "proto_udp", "dst_port", "label_code">>),
            DEFAULT_WINDOW, "half", Some(Classes)),
     Bundle(Some(FeatureCols), DEFAULT_WINDOW, "weak", Some(Classes3)),
     Bundle(Some(FeatureCols), DEFAULT_WINDOW, "by_bytes", None)}

InitRaw == \E rows \in RawInputs, meta \in RawBundles : Start(rows, meta)

SpecRaw == InitRaw /\ [][Next]_vars

\* main with --feature-only (ids.py 171..172): window_seconds of the loaded
\* bundle is set to 0 before the run
FeatureOnly(meta) == [meta EXCEPT !.window_seconds = 0]

InitFeatureOnly ==
    \E rows \in SmallInputs, meta \in Bundles : Start(rows, FeatureOnly(meta))

SpecFeatureOnly == InitFeatureOnly /\ [][Next]_vars

\* Training (src/IDS-tool/src/train_model.py) followed by inference with
\* the bundle it wrote, on the same file.  The file holds a label column or
\* none; the classifier fitted is not code of the repository.
WindowArgs == {30, DEFAULT_WINDOW}

Labelled(rows) ==
    [k \in 1..Len(rows) |->
        [c \in DOMAIN rows[k] \cup {"label"} |->
            IF c = "label"
            THEN IF rows[k].bytes >= 10 THEN "attack" ELSE "benign"
            ELSE rows[k][c]]]

TrainInputs ==
    {rows \in SmallInputs : Len(rows) >= 1}
        \cup {Labelled(rows) : rows \in {r \in SmallInputs : Len(r) >= 1}}

InitTrain ==
    /\ pc = "train"
    /\ input \in TrainInputs
    /\ args \in [window : WindowArgs, feature_only : BOOLEAN]
    /\ win_seconds = None
    /\ model_meta = None
    /\ df = <<>>
    /\ idx = 0
    /\ out_windows = EmptyWindows
    /\ in_windows = EmptyWindows
    /\ winf = <<>>
    /\ X = <<>>
    /\ Xfull = <<>>
    /\ proba = None
    /\ bi = 0
    /\ dets_batch = <<>>
    /\ batch_raised = FALSE
    /\ buffer_rows = <<>>
    /\ si = 0
    /\ X_cols = <<>>
    /\ now = 0
    /\ dets_stream = <<>>
    /\ row_features = ZeroFeatures
    /\ detections = <<>>

\* train_model.py 37..46: load_flows, the label column or SystemExit, then
\* the features assembled with win_seconds
TrainAssemble ==
    /\ pc = "train"
    /\ df' = load_flows(input)
    /\ IF "label" \notin Columns(df')
       THEN /\ pc' = "train_exit"
            /\ UNCHANGED <<win_seconds, Xfull>>
       ELSE /\ win_seconds' = IF args.feature_only THEN 0 ELSE args.window
            /\ Xfull' = assemble_features(df', win_seconds')
            /\ pc' = "train_fit"
    /\ UNCHANGED <<input, model_meta, idx, out_windows, in_windows, winf, X,
                   proba, bi, dets_batch, batch_raised, buffer_rows, si,
                   dets_stream, X_cols, now, args>>
    /\ UNCHANGED heur_vars

\* train_model.py 49..85: the classifier is fitted and the bundle written;
\* inference then loads it (ids.py 170)
TrainSave ==
    /\ pc = "train_fit"
    /\ model_meta' = Bundle(Some(feature_cols(df)), args.window, "hi",
                            Some(Classes))
    /\ pc' = "load"
    /\ UNCHANGED <<input, df, idx, out_windows, in_windows, winf, X, Xfull,
                   proba, bi, dets_batch, batch_raised, buffer_rows, si,
                   dets_stream, X_cols, now>>
    /\ UNCHANGED heur_vars
    /\ UNCHANGED train_vars

NextTrain == TrainAssemble \/ TrainSave \/ Next

SpecTrain == InitTrain /\ [][NextTrain]_vars

\* Records in any arrival order: the record sets of SmallInputs without the
\* order by ts, for a file that was not sorted before it is streamed
ArrivalInputs ==
    UNION {{[k \in 1..n |-> Flow(k, c[k][1], c[k][2][1], c[k][2][2],
                                 c[k][2][3], c[k][2][4])] :
               c \in [1..n -> TsValues \X FlowKinds]} :
           n \in 0..MaxLen}

ArrivalBundles ==
    {Bundle(Some(FeatureCols), DEFAULT_WINDOW, "by_bytes", Some(Classes)),
     Bundle(Some(BasicCols \o <<"proto_tcp">>), DEFAULT_WINDOW, "half",
            Some(Classes))}

InitArrival ==
    \E rows \in ArrivalInputs, meta \in ArrivalBundles : Start(rows, meta)

SpecArrival == InitArrival /\ [][Next]_vars

\* Inputs with ts cells that hold no timestamp: each cell of the ts column
\* is a timestamp, a text pd.to_datetime cannot parse, or empty.  No host
\* sends more than two of the RawLen flows, so np.diff (utils.py 137) is
\* never given a NaT.
TsCellKinds == {"ok", "text", "empty"}

TsCell(k, spread, cell) ==
    CASE cell = "ok" -> RawTs(k, spread)
      [] cell = "text" -> TsText
      [] OTHER -> TsNaT

TsInputs ==
    UNION {{[k \in 1..n |->
                [FullRow(k, spread, kinds, "ok", "tcp")
                    EXCEPT !.ts = TsCell(k, spread, cells[k])]] :
               cells \in [1..n -> TsCellKinds], spread \in {"near", "far"},
               kinds \in {"one_src", "a_first", "b_first"}} :
           n \in 1..RawLen}

InitTs == \E rows \in TsInputs, meta \in RawBundles : Start(rows, meta)

SpecTs == InitTs /\ [][Next]_vars

\* apply_heuristics called on its own with a feature vector: the values of
\* each feature on both sides of every threshold of lines 15..20 and of the
\* points where a score reaches 1.0.  beacon_cv_window is the square of the
\* coefficient of variation: 0, 0.1, 0.2, a value just above 0.2, 0.3, 1.0.
HeurCv == {CvZero, Frac(1, 100), Frac(1, 25), Frac(1, 24), Frac(9, 100), CvOne}

HeurVectors ==
    {[unique_dst_ports_window |-> up, connections_same_dst_window |-> bf,
      outbound_bytes_window |-> outb, inbound_bytes_window |-> inb,
      beacon_cv_window |-> cv, recent_conn_count |-> cnt] :
        up \in {0, PORT_SCAN_UNIQUE_PORTS},
        bf \in {0, BRUTE_FORCE_CONN_THRESHOLD - 1, BRUTE_FORCE_CONN_THRESHOLD,
                75, 2 * BRUTE_FORCE_CONN_THRESHOLD,
                3 * BRUTE_FORCE_CONN_THRESHOLD},
        outb \in {0, 9, 10, 19, 20, EXFILTRATION_BYTES_THRESHOLD - 1,
                  EXFILTRATION_BYTES_THRESHOLD},
        inb \in {0, 1, 100000},
        cv \in HeurCv,
        cnt \in {0, BEACON_MIN_COUNT - 1, BEACON_MIN_COUNT,
                 BEACON_MIN_COUNT + 1, 10}}

InitHeur ==
    /\ pc = "heur"
    /\ row_features \in HeurVectors
    /\ detections = <<>>
    /\ input = <<>>
    /\ model_meta = Bundle(Some(FeatureCols), DEFAULT_WINDOW, "hi", Some(Classes))
    /\ df = <<>>
    /\ idx = 0
    /\ out_windows = EmptyWindows
    /\ in_windows = EmptyWindows
    /\ winf = <<>>
    /\ X = <<>>
    /\ Xfull = <<>>
    /\ proba = None
    /\ bi = 0
    /\ dets_batch = <<>>
    /\ batch_raised = FALSE
    /\ buffer_rows = <<>>
    /\ si = 0
    /\ X_cols = <<>>
    /\ now = 0
    /\ dets_stream = <<>>
    /\ args = None
    /\ win_seconds = None

\* ids.py 30..46: the call returns
HeurApply ==
    /\ pc = "heur"
    /\ detections' = apply_heuristics(row_features)
    /\ pc' = "heur_done"
    /\ UNCHANGED <<input, model_meta, df, idx, out_windows, in_windows, winf,
                   X, Xfull, proba, bi, dets_batch, batch_raised, buffer_rows,
                   si, dets_stream, X_cols, now, row_features>>
    /\ UNCHANGED train_vars

NextHeur == HeurApply

SpecHeur == InitHeur /\ [][NextHeur]_vars

---------------------------------------------------------------------------
(* Helpers of the claims *)

Last(s) == s[Len(s)]

Reasons(ds) == {ds[k].reason : k \in 1..Len(ds)}

HeuristicReasons ==
    {"Port_Scan_Rule", "Brute_Force_Rule", "Exfiltration_Rule", "Beaconing_Rule"}

NonMl(ds) == SelectSeq(ds, LAMBDA d : d.reason # "ML_Detection")

DetsOf(ds, id) == SelectSeq(ds, LAMBDA d : d.row_id = id)

\* the number of distinct src_ip values of a record set
DistinctSrc(rows) == Cardinality({rows[k].src_ip : k \in 1..Len(rows)})

\* the batch run has assembled its features
Assembled == pc \in {"rows", "stream", "done"}

\* rows 1..i of d without the rows before i that are older than the window
\* of row i
Recent(d, i, w) ==
    SelectSeq(SubSeq(d, 1, i - 1), LAMBDA r : r.ts >= d[i].ts - w) \o <<d[i]>>

\* the number of outbound events of row i's source host in the trailing window
\* of row i, row i included
OutCount(d, i, w) ==
    Cardinality({j \in 1..(i - 1) : /\ d[j].src_ip = d[i].src_ip
                                    /\ d[j].ts >= d[i].ts - w}) + 1

\* the rows of d sent by host h, as indexes into d in order
RowsOf(d, h) == {i \in 1..Len(d) : d[i].src_ip = h}

\* row i is the k-th flow of its source host in d
Rank(d, i) == Cardinality({j \in 1..i : d[j].src_ip = d[i].src_ip})

\* the distinct destination ports of row i's source host in the trailing
\* window of row i, row i included
DistinctPorts(d, i, w) ==
    Cardinality({d[j].dst_port : j \in {j \in 1..i : /\ d[j].src_ip = d[i].src_ip
                                                      /\ d[j].ts >= d[i].ts - w}})

DetsWith(ds, reason) == SelectSeq(ds, LAMBDA x : x.reason = reason)

---------------------------------------------------------------------------
(* C1 *)

\* C1: batch/streaming equivalence.  For an input sorted by ts and a bundle
\* whose feature_columns is the assembled column list, when both runs have
\* returned, the detections of run_streaming equal those of run_batch, entry
\* for entry.
C1_BatchStreamingEquivalence ==
    (/\ pc = "done"
     /\ Sorted(input)
     /\ model_meta.feature_columns = Some(FeatureCols))
        => (~batch_raised /\ dets_stream = dets_batch)

---------------------------------------------------------------------------
(* C2 *)

\* C2: window eviction correctness.  The window features that
\* windowed_host_features computed for a flow are those it computes for the
\* same flow when every earlier event older than ts - window_seconds is
\* removed from the input: no such event contributes to any of the six.
C2_WindowEviction ==
    DistinctSrc(df) >= 2 =>
        \A i \in 1..Len(winf) :
            winf[i].f = Last(windowed_host_features(
                                 Recent(df, i, window_seconds),
                                 window_seconds)).f

\* a processed flow whose source host has an earlier outbound event older than
\* the window, and an inbound one
C2_Witness ==
    /\ DistinctSrc(df) >= 2
    /\ \E i \in 1..Len(winf) :
          /\ \E j \in 1..(i - 1) : /\ df[j].src_ip = df[i].src_ip
                                   /\ df[j].ts < df[i].ts - window_seconds
          /\ \E j \in 1..(i - 1) : /\ df[j].dst_ip = df[i].src_ip
                                   /\ df[j].ts < df[i].ts - window_seconds

---------------------------------------------------------------------------
(* C3 *)

StoredEvents ==
    UNION {{out_windows[h][k].ts : k \in 1..Len(out_windows[h])}
               \cup {in_windows[h][k].ts : k \in 1..Len(in_windows[h])} :
           h \in Hosts}

\* C3: HostWindowState invariant.  After each flow is processed, every event
\* stored in the outbound or inbound window of any host has a timestamp
\* >= current_flow.ts - window_seconds.
C3_EveryStoredEventInWindow ==
    (pc = "window" /\ idx > 0) =>
        \A t \in StoredEvents : t >= df[idx].ts - window_seconds

---------------------------------------------------------------------------
(* C6 *)

SixZero(row) == \A k \in 1..Len(WindowCols) :
                    row[WindowCols[k]] = ZeroOf(WindowCols[k])

\* C6: windowing-disabled fallback.  When src_ip takes at most one distinct
\* value across the input, the six window features of every row of the
\* assembled matrix are 0, apply_heuristics finds nothing in any row, and
\* neither run emits a heuristic detection.
C6_WindowingDisabledFallback ==
    DistinctSrc(input) <= 1 =>
        /\ \A i \in 1..Len(winf) : winf[i].f = ZeroFeatures
        /\ \A i \in 1..Len(Xfull) :
              SixZero(Xfull[i]) /\ apply_heuristics(Xfull[i]) = <<>>
        /\ Reasons(dets_batch) \cap HeuristicReasons = {}
        /\ Reasons(dets_stream) \cap HeuristicReasons = {}

\* both runs over three flows of one host, each large enough for the
\* exfiltration ratio had its bytes been counted
C6_Witness ==
    /\ pc = "done"
    /\ ~batch_raised
    /\ Len(input) >= 3
    /\ DistinctSrc(input) <= 1
    /\ \A k \in 1..Len(input) : input[k].bytes >= EXFILTRATION_RATIO
    /\ Len(Xfull) = Len(input)

---------------------------------------------------------------------------
(* C9 *)

\* C9: beacon CV edge case, as claimed.  Every flow whose source host has
\* fewer than 3 outbound events in its trailing window, the flow included,
\* has beacon_cv_window = 1.0.
C9_FewEventsCvOne ==
    Assembled =>
        \A i \in 1..Len(Xfull) :
            OutCount(df, i, window_seconds) < 3
                => Xfull[i].beacon_cv_window = CvOne

\* C9 amended: that value is 1.0 when host windowing is enabled (src_ip has
\* at least two distinct values in the input); when it is disabled the value
\* is the placeholder 0.0.
C9_FewEventsCvOneWhenWindowing ==
    Assembled =>
        \A i \in 1..Len(Xfull) :
            OutCount(df, i, window_seconds) < 3
                => Xfull[i].beacon_cv_window =
                       IF DistinctSrc(df) >= 2 THEN CvOne ELSE CvZero

\* windowing enabled, a flow that is its host's second outbound event in the
\* window
C9_Witness ==
    /\ Assembled
    /\ DistinctSrc(df) >= 2
    /\ \E i \in 1..Len(Xfull) : /\ OutCount(df, i, window_seconds) = 2
                                /\ Xfull[i].beacon_cv_window = CvOne

---------------------------------------------------------------------------
(* C10 *)

\* the bundle with a classifier that answers
Working(meta) == [meta EXCEPT !.model = "hi"]

\* C10: classifier failure is non-fatal.  When predict_proba raises, each run
\* returns no ML_Detection and exactly the heuristic detections of the run
\* with a working classifier on the same input.
C10_ClassifierFailureNonFatal ==
    (pc = "done" /\ model_meta.model = "raise" /\ ~batch_raised) =>
        /\ dets_batch = NonMl(RunBatch(input, Working(model_meta)))
        /\ dets_stream = NonMl(RunStreaming(input, Working(model_meta)))

\* both runs returned heuristic detections although the classifier raised
C10_Witness ==
    /\ pc = "done"
    /\ model_meta.model = "raise"
    /\ dets_batch # <<>>
    /\ dets_stream # <<>>
    /\ RunBatch(input, Working(model_meta)) # dets_batch

---------------------------------------------------------------------------
(* C4 *)

\* host h sends at least 25 flows, all within 5 seconds, no two of them to
\* the same destination port
ScanScenario(d, h) ==
    /\ Cardinality(RowsOf(d, h)) >= 25
    /\ \A i, j \in RowsOf(d, h) :
          /\ d[j].ts - d[i].ts <= 5
          /\ (i # j => d[i].dst_port # d[j].dst_port)

\* the k-th flow of the scanning host carries a Port_Scan_Rule detection of
\* class port_scan and score min(1, k/40) from its 20th flow on, none before
ScanDetected(d, h) ==
    \A i \in RowsOf(d, h) :
        DetsWith(apply_heuristics(Xfull[i]), "Port_Scan_Rule") =
            IF Rank(d, i) >= 20
            THEN <<[reason |-> "Port_Scan_Rule",
                    score |-> Min(1000, (Rank(d, i) * 1000) \div 40),
                    class_guess |-> "port_scan"]>>
            ELSE <<>>

\* C4: end-to-end port-scan scenario, as claimed.  For an input of 25 flows
\* from one host to 25 distinct destination ports within 5 seconds and
\* window_seconds = 60, assemble_features then apply_heuristics gives a
\* Port_Scan_Rule detection to the 20th flow and every later one, and none to
\* flows 1..19, with score min(1, k/40) for the k-th flow.
C4_PortScanScenario ==
    (Assembled /\ window_seconds = 60) =>
        \A h \in Hosts : ScanScenario(df, h) => ScanDetected(df, h)

\* C4 amended: the same, for an input that also holds at least one flow of
\* another source host, so that host windowing is enabled.
C4_PortScanScenarioWhenWindowing ==
    (Assembled /\ window_seconds = 60 /\ DistinctSrc(df) >= 2) =>
        \A h \in Hosts : ScanScenario(df, h) => ScanDetected(df, h)

\* the scenario with a flow of another host, assembled: the 19th flow has no
\* detection, the 25th has one
C4_Witness ==
    /\ Assembled
    /\ DistinctSrc(df) >= 2
    /\ ScanScenario(df, "A")
    /\ \E i, j \in RowsOf(df, "A") :
          /\ Rank(df, i) = 19
          /\ DetsWith(apply_heuristics(Xfull[i]), "Port_Scan_Rule") = <<>>
          /\ Rank(df, j) = 25
          /\ DetsWith(apply_heuristics(Xfull[j]), "Port_Scan_Rule") # <<>>

---------------------------------------------------------------------------
(* C7 *)

\* C7: port-scan threshold exactness.  With host windowing enabled, a flow
\* whose source host has exactly 20 distinct destination ports in its trailing
\* window, the flow's own port counted, gets a Port_Scan_Rule detection of
\* score 0.5; one whose source host has 19 gets none.
C7_PortScanThreshold ==
    (Assembled /\ DistinctSrc(df) >= 2) =>
        \A i \in 1..Len(Xfull) :
            /\ DistinctPorts(df, i, window_seconds) = 20
                  => DetsWith(apply_heuristics(Xfull[i]), "Port_Scan_Rule") =
                         <<[reason |-> "Port_Scan_Rule", score |-> 500,
                            class_guess |-> "port_scan"]>>
            /\ DistinctPorts(df, i, window_seconds) = 19
                  => DetsWith(apply_heuristics(Xfull[i]), "Port_Scan_Rule") = <<>>

\* windowing enabled; a flow that repeats a port while its host stays at 19
\* distinct ports, and a later-numbered flow of a host at exactly 20
C7_Witness ==
    /\ Assembled
    /\ DistinctSrc(df) >= 2
    /\ \E i \in 1..Len(Xfull) :
          /\ DistinctPorts(df, i, window_seconds) = 20
          /\ Rank(df, i) > 20
    /\ \E i \in 1..Len(Xfull) :
          /\ DistinctPorts(df, i, window_seconds) = 19
          /\ Rank(df, i) = 19

---------------------------------------------------------------------------
(* C8 *)

ScoreInBounds(ds) == \A k \in 1..Len(ds) : 0 <= ds[k].score /\ ds[k].score <= 1000

\* C8: score bounds.  Every detection emitted by run_batch or run_streaming,
\* by any of the four rules or as ML_Detection, has 0 <= score <= 1.
C8_ScoreBounds == ScoreInBounds(dets_batch) /\ ScoreInBounds(dets_stream)

\* both runs returned detections of all five kinds, among them port-scan and
\* brute-force detections whose ratio was capped at 1.0 and port-scan
\* detections below it
C8_Witness ==
    /\ pc = "done"
    /\ Reasons(dets_batch) = HeuristicReasons \cup {"ML_Detection"}
    /\ Reasons(dets_stream) = HeuristicReasons \cup {"ML_Detection"}
    /\ \E k \in 1..Len(dets_stream) :
          /\ dets_stream[k].reason = "Port_Scan_Rule"
          /\ dets_stream[k].score = 1000
    /\ \E k \in 1..Len(dets_stream) :
          /\ dets_stream[k].reason = "Port_Scan_Rule"
          /\ dets_stream[k].score < 1000
    /\ \E k \in 1..Len(dets_batch) :
          /\ dets_batch[k].reason = "Brute_Force_Rule"
          /\ dets_batch[k].score = 1000
    /\ \E k \in 1..Len(Xfull) :
          Xfull[k].unique_dst_ports_window > 2 * PORT_SCAN_UNIQUE_PORTS

---------------------------------------------------------------------------
(* C5 *)

\* host h sends at least 6 flows, all to one destination, each 10 seconds
\* after its previous one
BeaconScenario(d, h) ==
    /\ Cardinality(RowsOf(d, h)) >= 6
    /\ \A i, j \in RowsOf(d, h) :
          /\ d[i].dst_ip = d[j].dst_ip
          /\ (Rank(d, j) = Rank(d, i) + 1 => d[j].ts = d[i].ts + 10)

\* the flows of the beaconing host carry a Beaconing_Rule detection from the
\* 5th on, none before
BeaconDetected(d, h) ==
    \A i \in RowsOf(d, h) :
        (DetsWith(apply_heuristics(Xfull[i]), "Beaconing_Rule") # <<>>)
            <=> Rank(d, i) >= 5

\* C5: end-to-end beaconing scenario, as claimed.  For an input in which a
\* single host sends 6 consecutive flows to the same destination at identical
\* 10-second intervals and window_seconds = 60, assemble_features then
\* apply_heuristics gives a Beaconing_Rule detection to the 5th flow and every
\* later one, and none to flows 1..4.
C5_BeaconScenario ==
    (Assembled /\ window_seconds = 60) =>
        \A h \in Hosts : BeaconScenario(df, h) => BeaconDetected(df, h)

\* C5 amended: the same, for an input that also holds at least one flow of
\* another source host, so that host windowing is enabled.
C5_BeaconScenarioWhenWindowing ==
    (Assembled /\ window_seconds = 60 /\ DistinctSrc(df) >= 2) =>
        \A h \in Hosts : BeaconScenario(df, h) => BeaconDetected(df, h)

\* the scenario with a flow of another host, assembled: the 4th flow has no
\* beaconing detection, the 5th and the 6th have one of class beaconing
C5_Witness ==
    /\ Assembled
    /\ window_seconds = 60
    /\ DistinctSrc(df) >= 2
    /\ BeaconScenario(df, "A")
    /\ \E i, j, k \in RowsOf(df, "A") :
          /\ Rank(df, i) = 4
          /\ DetsWith(apply_heuristics(Xfull[i]), "Beaconing_Rule") = <<>>
          /\ Rank(df, j) = 5
          /\ Rank(df, k) = 6
          /\ \A m \in {j, k} :
                \E x \in 1..Len(apply_heuristics(Xfull[m])) :
                    /\ apply_heuristics(Xfull[m])[x].reason = "Beaconing_Rule"
                    /\ apply_heuristics(Xfull[m])[x].class_guess = "beaconing"

---------------------------------------------------------------------------
(* C11 *)

\* C11: a column mismatch does not suppress heuristic detections.  For every
\* feature-column list of the bundle, when run_batch has returned, the
\* heuristic detections it emitted for each flow are apply_heuristics of that
\* flow's full assembled feature vector.
C11_MismatchKeepsHeuristics ==
    (pc = "done" /\ ~batch_raised) =>
        \A i \in 1..Len(df) :
            NonMl(DetsOf(dets_batch, df[i].row_id)) =
                Tagged(df[i].row_id, apply_heuristics(Xfull[i]))

---------------------------------------------------------------------------
(* C12 *)

\* the streaming step being taken processes a record on which line 130 raises
StreamStepFails ==
    /\ pc = "stream"
    /\ si' = si + 1
    /\ StreamFails(Append(buffer_rows, Stamped(input[si + 1], now')))

\* C12: a streaming per-record failure leaves the state unchanged.  Every
\* step of run_streaming in which processing the arriving record raises
\* appends no detection and leaves the retained history buffer as it was
\* before the record arrived.
C12_StreamFailureLeavesState ==
    [][StreamStepFails =>
           (dets_stream' = dets_stream /\ buffer_rows' = buffer_rows)]_vars

---------------------------------------------------------------------------
(* C13 *)

\* the rows of d that carry row_id id
WithId(d, id) == {i \in 1..Len(d) : d[i].row_id = id}

\* C13: no run aborts because of a single bad row.  For a bundle with a
\* feature-column list, whatever the row_id cells of the input, run_batch
\* returns, with the detections of every row whose row_id is an integer no
\* other row carries, and run_streaming has read every record and returns.
C13_BadRowDoesNotAbort ==
    (pc = "done" /\ ~model_meta.feature_columns.none) =>
        /\ ~batch_raised
        /\ \A i \in 1..Len(df) :
              (IsInt(df[i].row_id) /\ WithId(df, df[i].row_id) = {i}) =>
                  DetsOf(dets_batch, df[i].row_id) =
                      BatchRowDets(df[i], X[i], proba, i, model_meta)
        /\ si = Len(input)

---------------------------------------------------------------------------
(* C14 *)

SeqSet(q) == {q[j] : j \in 1..Len(q)}

\* the matrix (cols, rows) is `full` with columns `produced`, aligned to
\* model_cols: the columns of model_cols in that order and no other, a
\* produced column with its values, any other all zeros
AlignedTo(cols, rows, produced, full, model_cols) ==
    /\ cols = model_cols
    /\ Len(rows) = Len(full)
    /\ \A i \in 1..Len(rows) :
          /\ DOMAIN rows[i] = SeqSet(model_cols)
          /\ \A c \in SeqSet(model_cols) :
                rows[i][c] = IF c \in SeqSet(produced) THEN full[i][c]
                             ELSE IF c = "beacon_cv_window" THEN CvZero ELSE 0

\* the matrix run_streaming gives to predict_proba when the next record
\* arrives at clock value t, aligned as above
NextStreamAligned(t) ==
    LET buf == Append(buffer_rows, Stamped(input[si + 1], t))
        buf_norm == load_flows_from_df(buf)
        X_buf == assemble_features(buf_norm, window_seconds)
        al == StreamAligned(buf_norm, X_buf, model_meta)
    IN AlignedTo(al.cols, al.rows, feature_cols(buf_norm), X_buf,
                 model_meta.feature_columns.v)

\* C14: feature alignment.  Whenever the bundle carries a feature-column
\* list, the matrix given to predict_proba in run_batch and at every step of
\* run_streaming has exactly the model's columns in the model's order; an
\* expected column the assembler did not produce is all zeros, an assembled
\* column the model does not expect is absent.
C14_FeatureAlignment ==
    ~model_meta.feature_columns.none =>
        /\ pc \in {"rows", "stream", "done"} =>
              AlignedTo(X_cols, X, feature_cols(df), Xfull,
                        model_meta.feature_columns.v)
        /\ (pc = "stream" /\ si < Len(input)) =>
              \A t \in {now, now + 1} : NextStreamAligned(t)

\* the batch matrix was aligned to a list that is in another order than the
\* assembled columns, names a column never assembled and one assembled, and
\* leaves assembled columns out; the last streaming step is about to align
C14_Witness ==
    /\ pc = "stream"
    /\ ~batch_raised
    /\ si = Len(input) - 1
    /\ Len(X) >= 2
    /\ X_cols = <<"bytes", "proto_udp", "dst_port", "label_code">>
    /\ "proto_udp" \in SeqSet(feature_cols(df))
    /\ \E i \in 1..Len(X) : X[i].proto_udp = 1 /\ X[i].bytes > 0

---------------------------------------------------------------------------
(* C15 *)

MlOf(ds) == SelectSeq(ds, LAMBDA d : d.reason = "ML_Detection")

\* the largest probability of a row and the label of the first class that
\* has it
TopProb(probs) == CHOOSE p \in SeqSet(probs) : \A q \in SeqSet(probs) : q <= p

TopLabel(probs, label_encoder) ==
    LET k == CHOOSE j \in 1..Len(probs) :
                 /\ probs[j] = TopProb(probs)
                 /\ \A m \in 1..(j - 1) : probs[m] # TopProb(probs)
    IN IF label_encoder.none THEN ToString(k - 1) ELSE label_encoder.v[k]

\* one ML_Detection of the top probability and its label when that
\* probability is at least 0.5, none otherwise
MlExpected(id, probs, label_encoder) ==
    IF TopProb(probs) >= 500
    THEN <<[row_id |-> id, reason |-> "ML_Detection",
            score |-> TopProb(probs),
            class_guess |-> TopLabel(probs, label_encoder)]>>
    ELSE <<>>

\* run_batch has returned: the ML detections of each row (one whose row_id
\* no other row carries)
BatchMlAsExpected ==
    (pc = "done" /\ ~batch_raised /\ ~proba.none) =>
        \A i \in 1..Len(df) :
            WithId(df, df[i].row_id) = {i} =>
                MlOf(DetsOf(dets_batch, df[i].row_id)) =
                    MlExpected(df[i].row_id, proba.v[i],
                               model_meta.label_encoder)

\* a step of run_streaming that processes a record without failing: the ML
\* detections it appends
StreamMlAsExpected ==
    (pc = "stream" /\ si' = si + 1) =>
        \A buf \in {Append(buffer_rows, Stamped(input[si + 1], now'))} :
        \A buf_norm \in {load_flows_from_df(buf)} :
        \A X_buf \in {assemble_features(buf_norm, window_seconds)} :
        \A probs \in {predict_proba(model_meta.model,
                           StreamAligned(buf_norm, X_buf, model_meta).rows)} :
            (~StreamFails(buf) /\ ~probs.none) =>
                \A row \in {probs.v[Len(X_buf)]} :
                    MlOf(SubSeq(dets_stream', Len(dets_stream) + 1,
                                Len(dets_stream'))) =
                        MlExpected(StreamRowId(buf[Len(buf)]), row,
                                   model_meta.label_encoder)

\* C15: ML fusion threshold.  For each flow with a usable probability row,
\* run_batch and run_streaming emit exactly one ML_Detection when the top
\* class probability is >= 0.5 and none when it is < 0.5; its score is that
\* probability and its class_guess the label of the arg-max class.
C15_MlFusionThreshold == []BatchMlAsExpected /\ [][StreamMlAsExpected]_vars

\* both runs returned; the classifier's top probability was exactly 0.5 and
\* each record has its ML_Detection of score 0.5
C15_Witness ==
    /\ pc = "done"
    /\ ~batch_raised
    /\ model_meta.model = "half"
    /\ Len(input) >= 2
    /\ Len(MlOf(dets_batch)) = Len(input)
    /\ Len(MlOf(dets_stream)) = Len(input)
    /\ \A k \in 1..Len(dets_batch) :
          dets_batch[k].reason = "ML_Detection" =>
              dets_batch[k].score = 500 /\ dets_batch[k].class_guess = "benign"

---------------------------------------------------------------------------
(* C16 *)

\* the place in the input of the record with row_id id
PosOf(id) == CHOOSE k \in 1..Len(input) : input[k].row_id = id

\* the detections of an earlier record come before those of a later one, and
\* within a record nothing but an ML_Detection follows an ML_Detection
InRecordOrder(ds) ==
    \A a, b \in 1..Len(ds) :
        a < b =>
            /\ PosOf(ds[a].row_id) <= PosOf(ds[b].row_id)
            /\ (ds[a].row_id = ds[b].row_id /\ ds[a].reason = "ML_Detection")
                   => ds[b].reason = "ML_Detection"

---------------------------------------------------------------------------
(* C17 *)

\* C17: assemble_features returns exactly one feature row per record.  For
\* every flow set load_flows produced, repeated row_id values included, the
\* matrix has as many rows as there are flows, row i holds the basic features
\* of flow i and its window features, and there is at least one feature
\* column.
C17_OneRowPerRecord ==
    pc \in {"rows", "stream", "done"} =>
        /\ Len(Xfull) = Len(df)
        /\ \A i \in 1..Len(df) :
              Xfull[i] = MergedRow(BasicRow(df, i), winf[i])
        /\ Len(feature_cols(df)) > 0

---------------------------------------------------------------------------
(* C18 *)

\* C18: load_flows adds every canonical column the input lacks.  Whatever
\* subset of src_port, dst_port, bytes, packets, duration, proto, tcp_flags,
\* src_ip, dst_ip the input is missing, every loaded record has all of them,
\* with 0 in a numeric column that was missing and the empty string in any
\* other that was, and has a ts.
C18_MissingColumnsAdded ==
    pc # "load" =>
        /\ Len(df) = Len(input)
        /\ \A i \in 1..Len(df) :
              /\ {"src_port", "dst_port", "bytes", "packets", "duration",
                   "proto", "tcp_flags", "src_ip", "dst_ip", "ts"}
                     \subseteq DOMAIN df[i]
              /\ \A c \in {"src_port", "dst_port", "bytes", "packets",
                            "duration"} \ Columns(input) : df[i][c] = 0
              /\ \A c \in {"proto", "tcp_flags", "src_ip", "dst_ip"}
                            \ Columns(input) : df[i][c] = ""

\* loaded: an input of two records or more with none of ts, dst_port, bytes
\* and proto, whose records now have them, with distinct timestamps
C18_Witness ==
    /\ pc # "load"
    /\ Len(input) >= 2
    /\ Columns(input) \cap {"ts", "dst_port", "bytes", "proto"} = {}
    /\ \A i \in 1..Len(df) :
          /\ df[i].bytes = 0 /\ df[i].dst_port = 0 /\ df[i].proto = ""
          /\ \A j \in 1..Len(df) : i # j => df[i].ts # df[j].ts

---------------------------------------------------------------------------
(* C19 *)

\* every record of rows has a positive integer row_id that no other has
UniquePositiveIds(rows) ==
    \A i \in 1..Len(rows) :
        /\ IsInt(rows[i].row_id)
        /\ rows[i].row_id \in 1..Len(rows)
        /\ \A j \in 1..Len(rows) : i # j => rows[i].row_id # rows[j].row_id

\* C19: row_id assignment.  When the input has no row_id column, after
\* load_flows (batch) and after load_flows_from_df at each streaming step
\* every record has a positive integer row_id of 1..n and no two records
\* share one.
C19_RowIdAssigned ==
    "row_id" \notin Columns(input) =>
        /\ pc # "load" => UniquePositiveIds(df)
        /\ (pc = "stream" /\ si < Len(input)) =>
              \A t \in {now, now + 1} :
                  UniquePositiveIds(load_flows_from_df(
                      Append(buffer_rows, Stamped(input[si + 1], t))))

---------------------------------------------------------------------------
(* C20 *)

\* C20: feature-column consistency.  For the same input and window_seconds,
\* the ordered feature-column list assemble_features produces at each
\* streaming step, over the retained history, is the list it produced in the
\* batch run over the whole input.
C20_FeatureColumnsConsistent ==
    (pc = "stream" /\ si < Len(input)) =>
        \A t \in {now, now + 1} :
            feature_cols(load_flows_from_df(
                Append(buffer_rows, Stamped(input[si + 1], t))))
                = feature_cols(df)

---------------------------------------------------------------------------
(* C21 *)

\* the earlier flows of d sent by the source host of flow i, inside the
\* trailing window of flow i
EarlierOut(d, i, w) ==
    {j \in 1..(i - 1) : d[j].src_ip = d[i].src_ip /\ d[j].ts >= d[i].ts - w}

\* the earlier flows of d addressed to the source host of flow i, inside the
\* trailing window of flow i
EarlierIn(d, i, w) ==
    {j \in 1..(i - 1) : d[j].dst_ip = d[i].src_ip /\ d[j].ts >= d[i].ts - w}

\* the sum of the bytes of the flows of d with index in S
RECURSIVE BytesOf(_, _)
BytesOf(d, S) ==
    IF S = {} THEN 0
    ELSE LET j == CHOOSE x \in S : TRUE IN d[j].bytes + BytesOf(d, S \ {j})

\* the window features of flow i recomputed from the full history
SetBased(d, i, w) ==
    LET P == EarlierOut(d, i, w)
        Q == EarlierIn(d, i, w)
    IN [unique_dst_ports_window |->
            Cardinality({d[j].dst_port : j \in P} \cup {d[i].dst_port}),
        connections_same_dst_window |->
            Cardinality({j \in P : d[j].dst_ip = d[i].dst_ip}) + 1,
        outbound_bytes_window |-> BytesOf(d, P) + d[i].bytes,
        inbound_bytes_window |-> BytesOf(d, Q),
        recent_conn_count |-> Cardinality(P) + 1]

\* C21: windowed features match their set-based definition.  With windowing
\* enabled, for each flow processed by windowed_host_features, the five
\* counting features computed from the lazily evicted deques equal those
\* recomputed from the earlier flows of the full history that lie in the
\* flow's trailing window.
C21_WindowFeaturesSetBased ==
    DistinctSrc(df) >= 2 =>
        \A i \in 1..Len(winf) :
            \A c \in DOMAIN SetBased(df, i, window_seconds) :
                winf[i].f[c] = SetBased(df, i, window_seconds)[c]

\* the third flow of a run with windowing enabled: its source host received
\* a flow that has left the window and sent one that is still inside it
C21_Witness ==
    /\ DistinctSrc(df) >= 2
    /\ Len(winf) >= 3
    /\ EarlierOut(df, 3, window_seconds) # {}
    /\ \E j \in 1..2 : /\ df[j].dst_ip = df[3].src_ip
                       /\ df[j].ts < df[3].ts - window_seconds
    /\ winf[3].f.inbound_bytes_window = 0
    /\ winf[3].f.recent_conn_count = 2

---------------------------------------------------------------------------
(* C22 *)

\* a coefficient of variation in thousandths, from its square (the squares
\* used are squares of whole thousandths)
CvMilli(cv) == CHOOSE c \in 0..1000 : c * c * cv.den = 1000 * 1000 * cv.num

\* the rows of the rule table, in thousandths
TableBruteForce(rf) ==
    IF rf.connections_same_dst_window >= 50
    THEN <<[reason |-> "Brute_Force_Rule",
            score |-> Min(1000, (rf.connections_same_dst_window * 1000) \div 100),
            class_guess |-> "brute_force"]>>
    ELSE <<>>

TableExfiltration(rf) ==
    IF \/ rf.outbound_bytes_window >= 1000000
       \/ rf.outbound_bytes_window >= 10 * (rf.inbound_bytes_window + 1)
    THEN <<[reason |-> "Exfiltration_Rule", score |-> 1000,
            class_guess |-> "exfiltration"]>>
    ELSE <<>>

TableBeaconing(rf) ==
    IF /\ 25 * rf.beacon_cv_window.num <= rf.beacon_cv_window.den
       /\ rf.recent_conn_count >= 5
    THEN <<[reason |-> "Beaconing_Rule",
            score |-> Min(1000, (5 * (1000 - CvMilli(rf.beacon_cv_window)))
                                    \div Max(1, rf.recent_conn_count)),
            class_guess |-> "beaconing"]>>
    ELSE <<>>

\* C22: apply_heuristics matches the rule table.  For every feature vector,
\* the Brute_Force_Rule, Exfiltration_Rule and Beaconing_Rule detections it
\* returns are those of the table's condition and score for that rule alone,
\* whatever the other rules do, and no rule appears more than once.
C22_HeuristicsMatchTable ==
    pc = "heur_done" =>
        /\ DetsWith(detections, "Brute_Force_Rule") = TableBruteForce(row_features)
        /\ DetsWith(detections, "Exfiltration_Rule")
               = TableExfiltration(row_features)
        /\ DetsWith(detections, "Beaconing_Rule") = TableBeaconing(row_features)
        /\ \A r \in HeuristicReasons : Len(DetsWith(detections, r)) <= 1
        /\ Reasons(detections) \subseteq HeuristicReasons

\* a feature vector at the brute-force threshold, over the exfiltration ratio
\* only, with cv exactly 0.2 and count 5: the three rules and the port-scan
\* rule fire together, each once
C22_Witness ==
    /\ pc = "heur_done"
    /\ row_features.connections_same_dst_window = BRUTE_FORCE_CONN_THRESHOLD
    /\ row_features.outbound_bytes_window = 20
    /\ row_features.inbound_bytes_window = 1
    /\ row_features.beacon_cv_window = Frac(1, 25)
    /\ row_features.recent_conn_count = BEACON_MIN_COUNT
    /\ Len(detections) = 4
    /\ DetsWith(detections, "Beaconing_Rule")[1].score = 800
    /\ DetsWith(detections, "Brute_Force_Rule")[1].score = 500

---------------------------------------------------------------------------
(* C23 *)

\* the ts of the record that arrived last
LatestTs ==
    IF "ts" \in DOMAIN input[si] THEN input[si].ts ELSE now

\* C23: streaming history bound.  After run_streaming has handled an
\* arriving record, processed or skipped, no record of the retained history
\* is older than the ts of that record minus window_seconds.
C23_StreamHistoryBound ==
    (pc = "stream" /\ si > 0) =>
        \A k \in 1..Len(buffer_rows) :
            buffer_rows[k].ts >= LatestTs - window_seconds

---------------------------------------------------------------------------
(* C24 *)

\* the timestamp record k of rows is to carry: its own; without one, that of
\* the nearest record before it that has one, else of the nearest after it;
\* second k - 1 when no record has one
ExpectedTs(rows, k) ==
    LET valid == {j \in 1..Len(rows) : IsTs(rows[j].ts)}
    IN IF k \in valid THEN rows[k].ts
       ELSE IF valid = {} THEN k - 1
       ELSE IF \E j \in valid : j < k
            THEN rows[CHOOSE j \in valid :
                          j < k /\ \A i \in valid : i < k => i <= j].ts
            ELSE rows[CHOOSE j \in valid : \A i \in valid : j <= i].ts

\* norm holds every record of rows (told apart by row_id), each with the
\* timestamp it is to carry, in non-decreasing ts order
Repaired(rows, norm) ==
    /\ Len(norm) = Len(rows)
    /\ \A j \in 1..Len(norm) : IsTs(norm[j].ts)
    /\ Sorted(norm)
    /\ \A k \in 1..Len(rows) :
          \E j \in 1..Len(norm) : /\ norm[j].row_id = rows[k].row_id
                                  /\ norm[j].ts = ExpectedTs(rows, k)

\* the batch half: what load_flows made of the input
BatchRepaired == pc # "load" => Repaired(input, df)

\* the streaming half: what load_flows_from_df makes of the history when the
\* next record arrives
StreamRepaired ==
    (pc = "stream" /\ si < Len(input)) =>
        \A buf \in {Append(buffer_rows, input[si + 1])} :
            Repaired(buf, load_flows_from_df(buf))

\* C24: malformed timestamps are repaired in both load paths.  After
\* load_flows and after load_flows_from_df every record is present, carries a
\* timestamp (its own, or the forward-filled then back-filled neighbour's, or
\* a synthesized one when no ts is valid), and the records are in
\* non-decreasing ts order.
C24_TimestampsRepaired == BatchRepaired /\ StreamRepaired

---------------------------------------------------------------------------
(* C25 *)

\* C25: feature-only mode disables the windowed host features.  With
\* window_seconds forced to 0, the six window features of every row of the
\* assembled matrix are 0 and neither run emits a heuristic detection,
\* however many distinct src_ip values the input has.
C25_FeatureOnlyDisablesWindowing ==
    window_seconds = 0 =>
        /\ \A i \in 1..Len(Xfull) : SixZero(Xfull[i])
        /\ Reasons(dets_batch) \cap HeuristicReasons = {}
        /\ Reasons(dets_stream) \cap HeuristicReasons = {}

---------------------------------------------------------------------------
(* C26 *)

\* C26: window_seconds is consistent from training to inference.  Once
\* training has written the bundle, its window_seconds, which run_batch and
\* run_streaming assemble their features with, is the window the training
\* features were assembled with, for every --window and --feature-only.
C26_WindowSecondsConsistent ==
    pc \notin {"train", "train_exit", "train_fit"} =>
        /\ model_meta.window_seconds = win_seconds
        /\ window_seconds = win_seconds

---------------------------------------------------------------------------
(* C27 *)

\* the timestamps of a sequence of events or records
TsOf(q) == [k \in 1..Len(q) |-> q[k].ts]

\* the flow just processed by windowed_host_features: the deques of its
\* source host hold the host's events up to it that are not strictly older
\* than ts - window_seconds, the ones exactly that old included
BoundaryKeptInDeques ==
    (pc = "window" /\ idx > 0) =>
        \A r \in {df[idx]} :
            /\ TsOf(out_windows[r.src_ip]) =
                   TsOf(SelectSeq(SubSeq(df, 1, idx),
                            LAMBDA x : /\ x.src_ip = r.src_ip
                                       /\ x.ts >= r.ts - window_seconds))
            /\ TsOf(in_windows[r.src_ip]) =
                   TsOf(SelectSeq(SubSeq(df, 1, idx),
                            LAMBDA x : /\ x.dst_ip = r.src_ip
                                       /\ x.ts >= r.ts - window_seconds))

\* an earlier flow of the same host exactly window_seconds before flow i is
\* counted in the features of flow i
BoundaryCounted ==
    DistinctSrc(df) >= 2 =>
        \A i \in 1..Len(winf) :
            \A E \in {{j \in 1..(i - 1) :
                          /\ df[j].src_ip = df[i].src_ip
                          /\ df[j].ts = df[i].ts - window_seconds}} :
                \A S \in {{j \in 1..(i - 1) :
                              /\ df[j].src_ip = df[i].src_ip
                              /\ df[j].ts > df[i].ts - window_seconds}} :
                    /\ winf[i].f.recent_conn_count = Cardinality(E \cup S) + 1
                    /\ winf[i].f.unique_dst_ports_window =
                           Cardinality({df[j].dst_port : j \in E \cup S}
                                           \cup {df[i].dst_port})

\* the streaming trim keeps the records not strictly older than
\* latest_timestamp - window_seconds
BoundaryKeptInBuffer ==
    (pc = "stream" /\ si > 0) =>
        buffer_rows = SelectSeq(SubSeq(input, 1, si),
                          LAMBDA r : r.ts >= input[si].ts - window_seconds)

\* C27: the window boundary is inclusive in both modes.  An event exactly
\* window_seconds older than the current flow stays in the deques and is
\* counted in the flow's features, a record exactly window_seconds older than
\* the newest one stays in the streaming history, and only strictly older
\* ones are removed.
C27_InclusiveBoundary ==
    BoundaryKeptInDeques /\ BoundaryCounted /\ BoundaryKeptInBuffer

\* a flow whose host sent another flow exactly window_seconds earlier, counted
\* by the batch run, and that earlier record still in the streaming history
\* when the flow has arrived
C27_Witness ==
    /\ pc = "stream"
    /\ si = Len(input)
    /\ si >= 2
    /\ DistinctSrc(df) >= 2
    /\ Len(winf) = Len(df)
    /\ \E j \in 1..(si - 1) :
          /\ df[j].src_ip = df[si].src_ip
          /\ df[j].ts = df[si].ts - window_seconds
          /\ winf[si].f.recent_conn_count >= 2
          /\ \E k \in 1..Len(buffer_rows) :
                buffer_rows[k].ts = input[si].ts - window_seconds
          /\ \E k \in 1..Len(out_windows[df[si].src_ip]) :
                out_windows[df[si].src_ip][k].ts = df[si].ts - window_seconds

---------------------------------------------------------------------------
(* C28 *)

\* flow i and the earlier outbound events of its source host in its window
\* are at least n events, all of one timestamp
Simultaneous(d, i, w, n) ==
    /\ Cardinality(EarlierOut(d, i, w)) + 1 >= n
    /\ \A j \in EarlierOut(d, i, w) : d[j].ts = d[i].ts

\* C28: zero-interval beacon value.  With windowing enabled, a flow whose
\* source host has at least 3 outbound events in its window, the flow
\* included, all of the same timestamp, has beacon_cv_window = 0.0; from the
\* 5th simultaneous flow on, assemble_features then apply_heuristics gives it
\* a Beaconing_Rule detection of class beaconing with score min(1, 5/count).
C28_ZeroIntervalBeacon ==
    (Assembled /\ DistinctSrc(df) >= 2) =>
        \A i \in 1..Len(Xfull) :
            /\ Simultaneous(df, i, window_seconds, 3)
                   => Xfull[i].beacon_cv_window = CvZero
            /\ Simultaneous(df, i, window_seconds, 5)
                   => DetsWith(apply_heuristics(Xfull[i]), "Beaconing_Rule") =
                          <<[reason |-> "Beaconing_Rule",
                             score |-> Min(1000,
                                 5000 \div (Cardinality(
                                     EarlierOut(df, i, window_seconds)) + 1)),
                             class_guess |-> "beaconing"]>>

\* six simultaneous flows of one host, windowing enabled: the third has cv
\* 0.0 and no detection, the fifth a detection of score 1.0, the sixth one of
\* score 5/6
C28_Witness ==
    /\ Assembled
    /\ DistinctSrc(df) >= 2
    /\ \E i, j, k \in RowsOf(df, "A") :
          /\ Simultaneous(df, k, window_seconds, 6)
          /\ Rank(df, i) = 3
          /\ Rank(df, j) = 5
          /\ Rank(df, k) = 6
          /\ Xfull[i].beacon_cv_window = CvZero
          /\ DetsWith(apply_heuristics(Xfull[i]), "Beaconing_Rule") = <<>>
          /\ DetsWith(apply_heuristics(Xfull[j]), "Beaconing_Rule")[1].score = 1000
          /\ DetsWith(apply_heuristics(Xfull[k]), "Beaconing_Rule")[1].score = 833

---------------------------------------------------------------------------
(* C29 *)

\* the detections of the record of row_id id, from its own row of the
\* features assembled over the history buf
OwnRowDets(buf, id, meta) ==
    \A buf_norm \in {load_flows_from_df(buf)} :
        \A X_buf \in {assemble_features(buf_norm, meta.window_seconds)} :
            \A p \in {q \in 1..Len(buf_norm) : buf_norm[q].row_id = id} :
                \A probs \in {predict_proba(meta.model,
                                  StreamAligned(buf_norm, X_buf, meta).rows)} :
                    SubSeq(dets_stream', Len(dets_stream) + 1, Len(dets_stream'))
                        = Tagged(id, apply_heuristics(X_buf[p])
                                  \o (IF probs.none THEN <<>>
                                      ELSE ml_detection(probs.v[p],
                                                        meta.label_encoder)))

\* a step of run_streaming appends the detections of the arriving record,
\* computed from that record's feature row
StreamStepOwnRow ==
    (pc = "stream" /\ si' = si + 1) =>
        OwnRowDets(Append(buffer_rows, input[si + 1]), input[si + 1].row_id,
                   model_meta)

\* C29: in run_streaming, for every arrival order, the detections emitted
\* when a record arrives carry that record's row_id and are computed from
\* that record's own feature row.
C29_StreamDetsOfArrivingRecord == [][StreamStepOwnRow]_vars

---------------------------------------------------------------------------
(* C30 *)

\* C30: a bundle without a feature-column list.  With the bundle load_model
\* makes of a bare classifier (feature_columns None), run_batch completes,
\* gives the classifier the assembled columns unchanged, and returns the
\* heuristic detections of every row, as run_streaming does.
C30_BareClassifierBatchCompletes ==
    (pc \in {"stream", "done"} /\ model_meta.feature_columns = None) =>
        /\ ~batch_raised
        /\ X_cols = feature_cols(df)
        /\ \A i \in 1..Len(df) :
              NonMl(DetsOf(dets_batch, df[i].row_id))
                  = Tagged(df[i].row_id, apply_heuristics(Xfull[i]))

====
